---- MODULE Spec2Model ----
(***************************************************************************)
(* Earth-side HTTP-over-DTN bridge (watanabetatsumi/ORF-2025-Space).       *)
(*                                                                         *)
(* Part I  (SpecGW):    the correlating gateway, BpGateway.ProxyRequest    *)
(*                      and the dispatcher started by StartReceiver.       *)
(* Part II (SpecCache): the cache-aside service BpService.ProxyRequest and *)
(*                      the worker RequestHandler.HandleRequest.           *)
(* Part III (SpecSend, SpecRecv): the bundle transport of the remote       *)
(*                      station, BpSender, BpReceiver and BpSocket.        *)
(* Part IV (SpecPipe):  the pipeline of the remote station: receive stage, *)
(*                      fetch workers, save-and-recurse worker, senders.   *)
(* Part V  (SpecCli):   the command-line-transport gateway, bp_gateway.go. *)
(* SpecFlow counts the items in the pipeline's channels; SpecAddr, SpecKey *)
(* and SpecCert follow SockaddrBP, GenerateCacheKey and the certificate    *)
(* cache of SSLBumpHandler.                                                *)
(* SpecLocks follows the gateway or the remote station, for properties     *)
(* that speak of both.                                                     *)
(***************************************************************************)
EXTENDS Integers, Sequences, FiniteSets, TLC

(***************************************************************************)
(* Bounds.                                                                 *)
(***************************************************************************)
\* number of ProxyRequest calls made on the gateway (numbered in the order they start)
NCalls == 2
\* number of response bundles the bundle layer hands to the receiver
MaxBundles == 2

\* number of requests the HTTP front end hands to BpService.ProxyRequest
NClients == 2
\* number of workers of the pool that take reservations
NWorkers == 2


\* number of BpSender.Send calls made
NSends == 2
\* number of Close calls made on one sender or receiver
NCloses == 2
\* number of bundles the receiver's socket yields beyond the capacity of dataChan
MaxOverflow == 2
\* number of Recv errors in a row that are followed
MaxErrRun == 4

\* number of request bundles the remote station takes from its receive queue
MaxPipeBundles == 2
\* number of fetch workers of the remote station that are followed
NFetch == 2
\* number of ProxyRequest calls on the command-line gateway
NCliCalls == 2
\* number of response bundles that arrive at the command-line gateway's endpoint
MaxCliBundles == 2

\* number of leading cells of the receive buffer that are followed
BufCells == 2

\* number of NewSockaddrBP calls made
NAddrCalls == 2

\* number of GenerateCacheKey calls made on requests with credentials
NKeyCalls == 2

\* number of connections whose handshakes call generateCert concurrently
NCertTasks == 2
\* number of generateCert calls started
MaxCertCalls == 3
\* largest maxCacheSize the handler is constructed with
MaxCertCache == 2

Calls == 1..NCalls
Serials == 1..MaxBundles
Clients == 1..NClients
Workers == 1..NWorkers

\* "no value" markers
NoID == "noid"
NoCall == 0
NoResult == [kind |-> "none"]
NoBundle == [n |-> 0]

(***************************************************************************)
(* Request identifiers.  generateID returns the hex form of 8 random bytes *)
(* or, when the random source fails, the decimal clock reading.            *)
(***************************************************************************)
\* values the random source can yield (hex strings)
RandIDs == {"00000000000000a1"}
\* clock readings (UnixNano) at which calls can take the fallback
Clock == {"1761782400000000001"}
IDs == RandIDs \cup Clock

(***************************************************************************)
(* Response payloads.  Body is a base64 string; Base64Decode is the        *)
(* decoder restricted to the sample bodies ("aGk=" encodes "hi").          *)
(***************************************************************************)
Bodies == {"aGk=", "!!"}
Statuses == {200, 404}

Base64Valid(s) == s = "aGk="
Base64Decode(s) == IF s = "aGk=" THEN <<104, 105>> ELSE <<>>

\* content types, spelled out because the code tests their prefixes
TextHtml == <<"t", "e", "x", "t", "/", "h", "t", "m", "l">>
TextPlain == <<"t", "e", "x", "t", "/", "p", "l", "a", "i", "n">>
CharsetUtf8 == <<";", " ", "c", "h", "a", "r", "s", "e", "t", "=", "u", "t", "f", "-", "8">>
TextHtmlUtf8 == TextHtml \o CharsetUtf8
TextPlainUtf8 == TextPlain \o CharsetUtf8
ImagePng == <<"i", "m", "a", "g", "e", "/", "p", "n", "g">>
\* strings.HasPrefix
HasPrefix(str, prefix) ==
    Len(str) >= Len(prefix) /\ SubSeq(str, 1, Len(prefix)) = prefix

\* the header map of the sample responses, as sent by the remote side
SampleHeaders == ("content-type" :> <<TextHtml>>)
\* textproto.CanonicalMIMEHeaderKey on the sample keys (used by http.Header.Add)
CanonicalKey(k) == IF k = "content-type" THEN "Content-Type" ELSE k
\* the orders in which a range over a map can visit the keys in S
KeyOrders(S) ==
    {o \in [1..Cardinality(S) -> S] : \A i, j \in 1..Cardinality(S) : i # j => o[i] # o[j]}
\* the values of the keys of h visited in the order o, appended one after the other
RECURSIVE Appended(_, _)
Appended(h, o) == IF o = <<>> THEN <<>> ELSE h[Head(o)] \o Appended(h, Tail(o))
\* httpHeader := make(http.Header); for k, v := range h { for _, hVal := range v
\* { httpHeader.Add(k, hVal) } }: Add appends under the canonical key, so a
\* key without values leaves no entry, and the values of keys with one
\* canonical form are merged in the order the range visits them.  The set
\* of header maps the loop can build.
HttpHeader(h) ==
    LET keys == {k \in DOMAIN h : h[k] # <<>>}
        canon == {CanonicalKey(k) : k \in keys}
        merged(ck) == {Appended(h, o) : o \in KeyOrders({k \in keys : CanonicalKey(k) = ck})}
    IN {hh \in [canon -> UNION {merged(ck) : ck \in canon}] : \A ck \in canon : hh[ck] \in merged(ck)}

\* the JSON documents a received file can hold: a DTNJsonResponse (a 200 with
\* a decodable body or a 404 with a corrupt one) or something that is no JSON
DTNJsonResponse ==
    {d \in [json : {TRUE}, RequestID : IDs, StatusCode : Statuses, Headers : {SampleHeaders},
            Body : Bodies, ContentType : {TextHtml}, ContentLength : {2}] :
        (d.StatusCode = 200) = Base64Valid(d.Body)}
Garbage ==
    [json |-> FALSE, RequestID |-> NoID, StatusCode |-> 0, Headers |-> <<>>,
     Body |-> "", ContentType |-> <<>>, ContentLength |-> 0]
Payloads == DTNJsonResponse \cup {Garbage}

\* capacity of a response channel: make(chan *DTNJsonResponse, 1)
ChanCap == 1

(***************************************************************************)
(* model.BpRequest.  Strings that the code searches are sequences of       *)
(* characters; the others are opaque.                                      *)
(***************************************************************************)
\* strings.ToLower on one character: the ASCII capitals, and unicode.ToLower
\* for the others.  A character outside ASCII is written by its code point;
\* U+212A (Kelvin sign) and U+0130 (I with dot above) are the two whose lower
\* case is an ASCII letter, U+00C9 stands for the capitals whose lower case is
\* not.
LowerChar(ch) ==
    CASE ch = "A" -> "a" [] ch = "B" -> "b" [] ch = "C" -> "c" [] ch = "D" -> "d"
      [] ch = "E" -> "e" [] ch = "F" -> "f" [] ch = "G" -> "g" [] ch = "H" -> "h"
      [] ch = "I" -> "i" [] ch = "J" -> "j" [] ch = "K" -> "k" [] ch = "L" -> "l"
      [] ch = "M" -> "m" [] ch = "N" -> "n" [] ch = "O" -> "o" [] ch = "P" -> "p"
      [] ch = "Q" -> "q" [] ch = "R" -> "r" [] ch = "S" -> "s" [] ch = "T" -> "t"
      [] ch = "U" -> "u" [] ch = "V" -> "v" [] ch = "W" -> "w" [] ch = "X" -> "x"
      [] ch = "Y" -> "y" [] ch = "Z" -> "z"
      [] ch = "U+212A" -> "k" [] ch = "U+0130" -> "i" [] ch = "U+00C9" -> "U+00E9"
      [] OTHER -> ch
ToLower(str) == [i \in 1..Len(str) |-> LowerChar(str[i])]
\* strings.Contains
Contains(str, sub) ==
    \E i \in 1..(Len(str) - Len(sub) + 1) : SubSeq(str, i, i + Len(sub) - 1) = sub

WordSession == <<"s", "e", "s", "s", "i", "o", "n">>
WordAuth == <<"a", "u", "t", "h">>
WordToken == <<"t", "o", "k", "e", "n">>

\* the test applied to each Cookie value in IsCacheable, IsUserSpecific, GenerateCacheKey
SessionCookie(cookie) ==
    \/ Contains(ToLower(cookie), WordSession)
    \/ Contains(ToLower(cookie), WordAuth)
    \/ Contains(ToLower(cookie), WordToken)

HasHeader(r, name) == name \in DOMAIN r.Headers

\* mutant: the Cookie header is not looked at
IsCacheableMethodOnly(r) == r.Method = "GET"

IsCacheable(r) ==
    /\ r.Method = "GET"
    /\ ~(HasHeader(r, "Cookie") /\
         \E i \in 1..Len(r.Headers["Cookie"]) : SessionCookie(r.Headers["Cookie"][i]))

IsUserSpecific(r) ==
    \/ HasHeader(r, "Authorization")
    \/ (HasHeader(r, "Cookie") /\
        \E i \in 1..Len(r.Headers["Cookie"]) : SessionCookie(r.Headers["Cookie"][i]))

\* the UTF-8 bytes of the characters that occur in the sample headers
BytesOf(ch) ==
    CASE ch = "," -> <<44>> [] ch = "-" -> <<45>> [] ch = "1" -> <<49>> [] ch = ":" -> <<58>>
      [] ch = "=" -> <<61>> [] ch = "A" -> <<65>> [] ch = "B" -> <<66>> [] ch = "L" -> <<76>>
      [] ch = "S" -> <<83>> [] ch = "a" -> <<97>> [] ch = "c" -> <<99>> [] ch = "e" -> <<101>>
      [] ch = "g" -> <<103>> [] ch = "h" -> <<104>> [] ch = "i" -> <<105>> [] ch = "k" -> <<107>>
      [] ch = "n" -> <<110>> [] ch = "o" -> <<111>> [] ch = "p" -> <<112>> [] ch = "q" -> <<113>>
      [] ch = "s" -> <<115>> [] ch = "t" -> <<116>> [] ch = "u" -> <<117>> [] ch = "x" -> <<120>>
      [] ch = "y" -> <<121>> [] ch = "|" -> <<124>>
      [] ch = "U+00C9" -> <<195, 137>> [] ch = "U+00E9" -> <<195, 169>>
      [] ch = "U+0130" -> <<196, 176>> [] ch = "U+212A" -> <<226, 132, 170>>
      [] OTHER -> <<0>>
\* the bytes of a string
RECURSIVE Utf8(_)
Utf8(str) == IF str = <<>> THEN <<>> ELSE BytesOf(Head(str)) \o Utf8(Tail(str))
RECURSIVE BytesLess(_, _)
BytesLess(a, b) ==
    IF b = <<>> THEN FALSE
    ELSE IF a = <<>> THEN TRUE
    ELSE IF Head(a) # Head(b) THEN Head(a) < Head(b)
    ELSE BytesLess(Tail(a), Tail(b))
\* a < b on Go strings: byte-wise, a proper prefix first
StrLess(a, b) == BytesLess(Utf8(a), Utf8(b))
\* strings.Join(elems, sep)
RECURSIVE Join(_, _)
Join(elems, sep) ==
    IF elems = <<>> THEN <<>>
    ELSE IF Len(elems) = 1 THEN Head(elems)
    ELSE Head(elems) \o sep \o Join(Tail(elems), sep)

AuthPrefix == <<"a", "u", "t", "h", ":">>
CookiePrefix == <<"c", "o", "o", "k", "i", "e", ":">>
AcceptPrefix == <<"A", "c", "c", "e", "p", "t", ":">>
AcceptLanguagePrefix ==
    <<"A", "c", "c", "e", "p", "t", "-", "L", "a", "n", "g", "u", "a", "g", "e", ":">>

\* the headerParts of GenerateCacheKey in the order the code appends them;
\* each part is a string
\* mutant: the key records that a session cookie is present, not its value
RECURSIVE CookiePartsNoValue(_)
CookiePartsNoValue(cs) ==
    IF cs = <<>> THEN <<>>
    ELSE (IF SessionCookie(Head(cs)) THEN <<CookiePrefix>> ELSE <<>>)
         \o CookiePartsNoValue(Tail(cs))

RECURSIVE CookieParts(_)
CookieParts(cs) ==
    IF cs = <<>> THEN <<>>
    ELSE (IF SessionCookie(Head(cs)) THEN <<CookiePrefix \o Head(cs)>> ELSE <<>>)
         \o CookieParts(Tail(cs))

HeaderParts(r) ==
    (IF IsUserSpecific(r)
     THEN (IF HasHeader(r, "Authorization")
           THEN <<AuthPrefix \o Join(r.Headers["Authorization"], <<",">>)>> ELSE <<>>)
          \o (IF HasHeader(r, "Cookie") THEN CookieParts(r.Headers["Cookie"]) ELSE <<>>)
     ELSE <<>>)
    \o (IF HasHeader(r, "Accept")
        THEN <<AcceptPrefix \o Join(r.Headers["Accept"], <<",">>)>> ELSE <<>>)
    \o (IF HasHeader(r, "Accept-Language")
        THEN <<AcceptLanguagePrefix \o Join(r.Headers["Accept-Language"], <<",">>)>>
        ELSE <<>>)

\* sort.Strings(headerParts), as an insertion sort
RECURSIVE InsertPart(_, _)
InsertPart(part, sorted) ==
    IF sorted = <<>> THEN <<part>>
    ELSE IF StrLess(part, Head(sorted)) THEN <<part>> \o sorted
    ELSE <<Head(sorted)>> \o InsertPart(part, Tail(sorted))
RECURSIVE SortParts(_)
SortParts(parts) ==
    IF parts = <<>> THEN <<>> ELSE InsertPart(Head(parts), SortParts(Tail(parts)))

\* "bp:cache:" + hex(sha256(baseKey)); SHA-256 is taken to be collision free, so
\* the key is the text that is hashed: Method + ":" + URL, then ":" and the
\* sorted parts joined by "|".  Method and URL are kept whole, the parts are
\* spelled out character by character.
GenerateCacheKey(r) ==
    <<"bp:cache:", r.Method, ":", r.URL>> \o
    (IF HeaderParts(r) # <<>> THEN <<":">> \o Join(SortParts(HeaderParts(r)), <<"|">>) ELSE <<>>)

\* sample requests
NoHeaders == <<>>
ReqPage == [Method |-> "GET", URL |-> "http://example.org/a", Headers |-> NoHeaders]
ReqImage == [Method |-> "GET", URL |-> "http://example.org/logo.png", Headers |-> NoHeaders]
ReqPost == [Method |-> "POST", URL |-> "http://example.org/a", Headers |-> NoHeaders]
ReqSession ==
    [Method |-> "GET", URL |-> "http://example.org/a",
     Headers |-> ("Cookie" :> << <<"S", "e", "s", "s", "i", "o", "n", "=", "x">> >>)]
\* Cookie: session=x and Cookie: session=y
ReqSessionX ==
    [Method |-> "GET", URL |-> "http://example.org/a",
     Headers |-> ("Cookie" :> << <<"s", "e", "s", "s", "i", "o", "n", "=", "x">> >>)]
ReqSessionY ==
    [Method |-> "GET", URL |-> "http://example.org/a",
     Headers |-> ("Cookie" :> << <<"s", "e", "s", "s", "i", "o", "n", "=", "y">> >>)]
\* Cookie: to\u212Aen=1, which strings.ToLower turns into token=1
ReqKelvin ==
    [Method |-> "GET", URL |-> "http://example.org/a",
     Headers |-> ("Cookie" :> << <<"t", "o", "U+212A", "e", "n", "=", "1">> >>)]
Requests == {ReqPage, ReqImage, ReqPost, ReqSession, ReqSessionX, ReqSessionY, ReqKelvin}
NoReq == [Method |-> "", URL |-> "", Headers |-> NoHeaders]

CacheKeys == {GenerateCacheKey(r) : r \in Requests}
NoEntry == [StatusCode |-> 0]

\* what Gateway.ProxyRequest can return to the service or the worker
GwResponses ==
    {[StatusCode |-> 200, Body |-> "v1"], [StatusCode |-> 404, Body |-> "nf"]}
GwError == [StatusCode |-> -1]
GwOutcomes == GwResponses \cup {GwError}


VARIABLES
    \* ---- gateway (part_006) ----
    pc,           \* pc[c]: position of call c in ProxyRequest
    reqID,        \* reqID[c]: the ID call c generated (NoID before)
    responseChs,  \* the registry: ID -> channel (named by its call) or NoCall
    respCh,       \* respCh[c]: content of call c's channel (capacity 1)
    result,       \* result[c]: what call c returns (from: the bundle it took)
    outbox,       \* request bundles handed to bpsendfile (their IDs)
    produced,     \* number of response bundles bprecvfile has returned
    dpc,          \* dispatcher position: "recv" or "send"
    dcur,         \* the bundle the dispatcher is about to send (dtnResp)
    dch,          \* channel the dispatcher loaded for dcur
    fate,         \* fate[n]: what the dispatcher did with bundle n
    placed,       \* placed[c]: responses put into call c's channel
    consumed      \* consumed[c]: responses call c took from its channel

VARIABLES
    \* ---- cache-aside service and worker ----
    cache,        \* the cache store: cache key -> stored response or NoEntry
    queue,        \* reservations waiting to be popped, oldest first
    reserved,     \* reserved[r]: reservations of request r made and not yet removed
    cpc,          \* cpc[k]: position of client k's BpService.ProxyRequest
    svc,          \* svc[k]: what that call did (request, path, calls made, result)
    wpc,          \* wpc[w]: position of worker w
    wk            \* wk[w]: what worker w's current or last HandleRequest did

VARIABLES
    \* ---- bundle transport of the remote station (package bpsocket) ----
    sfd,          \* the descriptor of the BpSender's socket: "open" or "closed"
    sendLog,      \* the BpSender.Send calls made so far, in order
    sCloseLog,    \* the BpSender.Close calls made so far, in order
    rpc,          \* position of BpReceiver.receiveLoop
    rfd,          \* the descriptor of the BpReceiver's socket: "open" or "closed"
    stopChan,     \* "open" or "closed"
    dataChan,     \* content of r.dataChan, oldest first
    dataClosed,   \* TRUE once close(r.dataChan) has run
    recvd,        \* number of bundles socket.Recv has returned
    rcur,         \* the bundle (its serial number) the loop holds, 0 for none
    errRun,       \* number of Recv errors in a row up to now
    dropped,      \* the bundles dropped at a full dataChan
    rcl,          \* position of BpReceiver.Close: "idle" or "socket"
    rCloseLog,    \* the BpReceiver.Close calls made so far, in order
    buf,          \* the leading cells of receiveLoop's buffer buf
    held          \* held[k]: the slice data made for the k-th bundle received

\* the remote station's pipeline (package main of the remote station)
VARIABLES
    taken,        \* the bundles recvStageBpSocket has taken from dataChan, in order
    urlChan,      \* content of urlChan, oldest first
    bpResChan,    \* content of bpResChan, oldest first
    sendChan,     \* content of sendChan, oldest first
    visitedURLs,  \* the keys of visitedURLs
    visitedMutex, \* the task holding visitedMutex, Unlocked for none
    fpc,          \* position of each fetch worker
    fcur,         \* the CrawlRequest each fetch worker holds
    spc,          \* position of the save-and-recurse worker
    scur,         \* the BpResponse the save-and-recurse worker holds
    slinks,       \* the links it has still to look at
    executed,     \* the HTTP requests issued so far
    handed,       \* per request_id, the number of responses given to sender.Send
    panicked      \* TRUE once a goroutine has panicked (the process is gone)

\* the command-line-transport gateway (bp_gateway.go)
VARIABLES
    epFor,        \* history: for each bundle in endpoint, the call whose request it answers
    answered,     \* history: the calls whose response bundle has been produced
    cgfile,       \* the content each call read from testfile1
    cgTook,       \* history: the call whose response bundle each call returned (0: none)
    cgpc,         \* position of each ProxyRequest call
    cgctx,        \* each call's context: "live" or "done"
    cgres,        \* what each call returned
    endpoint,     \* response bundles waiting at ipn:149.2, oldest first
    cgArrived,    \* number of response bundles that have arrived
    testfile      \* the file testfile1: NoFile or FileOf(payload, call)

VARIABLES
    \* ---- the channels of the remote station's pipeline, by occupancy ----
    hubFan,       \* number of links of the page the request asks for (0: no request yet)
    hubSaved,     \* the save-and-recurse worker has taken that page's response
    urlLen,       \* number of CrawlRequests in urlChan
    holding,      \* number of fetch workers that hold a CrawlRequest
    bpResLen,     \* number of responses in bpResChan
    sendLen,      \* number of responses in sendChan
    saving,       \* the save-and-recurse worker holds a response it has yet to send to sendChan
    toPush        \* number of links of the current response still to be sent to urlChan

VARIABLES
    addrs,        \* the NewSockaddrBP calls made so far: arguments and result
    keyLog        \* the GenerateCacheKey calls made so far: request and key

VARIABLES
    \* ---- SSLBumpHandler's certificate cache (sslbump.go) ----
    constructed,  \* NewSSLBumpHandler has returned the handler
    maxCacheSize, \* the handler's maxCacheSize
    certCache,    \* the map certCache: host name -> certificate (the number of the call that built it)
    certCacheKeys, \* the slice certCacheKeys
    gpc,          \* position of each connection's generateCert call: "idle" or "built"
    ghost,        \* the host name of each running call
    certCalls,    \* number of generateCert calls started
    inserted,     \* history: the host names stored in certCache, in the order they were stored
    certPanic     \* a generateCert call has panicked

pipevars == <<taken, urlChan, bpResChan, sendChan, visitedURLs, visitedMutex,
              fpc, fcur, spc, scur, slinks, executed, handed, panicked>>
clivars == <<cgpc, cgctx, cgres, endpoint, cgArrived, testfile, epFor, answered, cgTook,
             cgfile>>
addrvars == <<addrs>>
keyvars == <<keyLog>>
flowvars == <<hubFan, hubSaved, urlLen, holding, bpResLen, sendLen, saving, toPush>>
certvars == <<constructed, maxCacheSize, certCache, certCacheKeys, gpc, ghost,
              certCalls, inserted, certPanic>>
auxvars == <<addrvars, certvars, keyvars, flowvars>>
stationvars == <<pipevars, clivars, auxvars>>

gwvars == <<pc, reqID, responseChs, respCh, result, outbox, produced,
            dpc, dcur, dch, fate, placed, consumed>>
cachevars == <<cache, queue, reserved, cpc, svc, wpc, wk>>
sendvars == <<sfd, sendLog, sCloseLog>>
recvvars == <<rpc, rfd, stopChan, dataChan, dataClosed, recvd, rcur, errRun, dropped,
              rcl, rCloseLog, buf, held>>
sockvars == <<sendvars, recvvars>>

vars == <<gwvars, cachevars, sockvars, stationvars>>

(***************************************************************************)
(* Data of the remote station's pipeline and of the command-line gateway.  *)
(***************************************************************************)
PipeSerials == 1..MaxPipeBundles
Fetchers == 1..NFetch
CliCalls == 1..NCliCalls

\* holders of visitedMutex: no one, a fetch worker, the save-and-recurse worker
Unlocked == 0
SaveTask == NFetch + 1

\* the two pages of the sample site; each links to the other
UrlA == "http://example.org/a"
UrlB == "http://example.org/b"
Hrefs(u) == IF u = UrlA THEN <<UrlB>> ELSE IF u = UrlB THEN <<UrlA>> ELSE <<>>

\* base64.StdEncoding.EncodeToString on the sample bodies
Base64Encode(b) == IF b = <<104, 105>> THEN "aGk=" ELSE ""

\* request models given to the gateway: a plain GET, a POST with a header and
\* a body, and a request with an empty URL
PipeRequests ==
    { [Method |-> "GET", URL |-> UrlA, Headers |-> <<>>, Body |-> <<>>],
      [Method |-> "POST", URL |-> UrlA,
       Headers |-> ("Content-Type" :> <<TextPlain>>), Body |-> <<104, 105>>],
      [Method |-> "GET", URL |-> "", Headers |-> <<>>, Body |-> <<>>] }

\* sendBundle: the DTNJsonRequest built from a request model; the n-th
\* request ID is written n
Envelope(id, r) ==
    [json |-> TRUE, request_id |-> id, method |-> r.Method, url |-> r.URL,
     headers |-> r.Headers, body |-> Base64Encode(r.Body)]
\* a payload that json.Unmarshal rejects
GarbageBundle == [json |-> FALSE]
\* the payloads the n-th bundle can carry
PipeBundles(n) == {Envelope(n, r) : r \in PipeRequests} \cup {GarbageBundle}

\* ParseDTNRequest: only request_id and url are decoded
ParseDTNRequest(data) ==
    IF ~data.json THEN [url |-> "", reqID |-> 0, err |-> "JSON parse error"]
    ELSE IF data.url = "" THEN [url |-> "", reqID |-> 0, err |-> "URL is empty"]
    ELSE [url |-> data.url, reqID |-> data.request_id, err |-> "nil"]

\* fmt.Sprintf("error://invalid-request/%s", url.QueryEscape(err.Error()))
ErrorURL(err) ==
    IF err = "URL is empty" THEN "error://invalid-request/URL+is+empty"
    ELSE "error://invalid-request/JSON+parse+error"
\* strings.HasPrefix(targetURL, "error://") on the URLs of the model
HasErrorPrefix(u) == u \in {ErrorURL("URL is empty"), ErrorURL("JSON parse error")}

maxDepth == 2
\* capacity of urlChan, bpResChan and sendChan
PipeChanCap == 100

NoCrawl == [RequestID |-> 0, URL |-> "", Depth |-> 0]
NoRes == [RequestID |-> 0, StatusCode |-> 0, hasOriginal |-> FALSE, original |-> "",
          ContentType |-> <<>>, decodable |-> TRUE, hrefs |-> <<>>, Depth |-> 0]
\* the 400 response built for an error URL: its Headers hold Content-Type only
ErrRes(id) ==
    [RequestID |-> id, StatusCode |-> 400, hasOriginal |-> FALSE, original |-> "",
     ContentType |-> TextPlain, decodable |-> TRUE, hrefs |-> <<>>, Depth |-> 0]
\* the response built after a successful fetch, with X-Original-URL set
FetchedRes(cr) ==
    [RequestID |-> cr.RequestID, StatusCode |-> 200, hasOriginal |-> TRUE,
     original |-> cr.URL, ContentType |-> TextHtml, decodable |-> TRUE,
     hrefs |-> Hrefs(cr.URL), Depth |-> cr.Depth]
\* extractLinksBpSocket: no links unless the content type begins with
\* text/html and the body decodes; hrefs are the same-host links of the body
\* resolved against base.  Body is always the output of EncodeToString
\* (decodable), and base is a URL http.NewRequest accepted, which url.Parse
\* accepts as well.
extractLinksBpSocket(bpRes, base) ==
    IF ~HasPrefix(bpRes.ContentType, TextHtml) THEN <<>>
    ELSE IF ~bpRes.decodable THEN <<>>
    ELSE bpRes.hrefs
\* the request the fetch worker issues for a CrawlRequest
Issued(cr) ==
    [RequestID |-> cr.RequestID, Depth |-> cr.Depth,
     req |-> [Method |-> "GET", URL |-> cr.URL, Headers |-> <<>>, Body |-> <<>>]]

InitPipe ==
    /\ taken = <<>>
    /\ urlChan = <<>>
    /\ bpResChan = <<>>
    /\ sendChan = <<>>
    /\ visitedURLs = {}
    /\ visitedMutex = Unlocked
    /\ fpc = [w \in Fetchers |-> "idle"]
    /\ fcur = [w \in Fetchers |-> NoCrawl]
    /\ spc = "idle"
    /\ scur = NoRes
    /\ slinks = <<>>
    /\ executed = {}
    /\ handed = [i \in 0..MaxPipeBundles |-> 0]
    /\ panicked = FALSE

\* the file testfile1: absent, or holding the payload of a bundle (with, as
\* history, the call whose request the bundle answers)
NoFile == [present |-> FALSE]
FileOf(d, c) == [present |-> TRUE, data |-> d, for |-> c]

InitCli ==
    /\ cgpc = [c \in CliCalls |-> "init"]
    /\ cgctx = [c \in CliCalls |-> "live"]
    /\ cgres = [c \in CliCalls |-> NoResult]
    /\ endpoint = <<>>
    /\ cgArrived = 0
    /\ testfile = NoFile
    /\ cgfile = [c \in CliCalls |-> Garbage]
    /\ epFor = <<>>
    /\ answered = {}
    /\ cgTook = [c \in CliCalls |-> 0]

\* a uint64 is written as its two 32-bit words: the value is hi * 2^32 + lo
U64(hi, lo) == [hi |-> hi, lo |-> lo]
\* mutant: the conversion keeps the value (a field as wide as the argument)
Uint32Wide(x) == x
\* the conversion uint32(x) keeps the low word: the value is x mod 2^32
Uint32(x) == U64(0, x.lo)
\* the node and service numbers given to NewSockaddrBP
NodeNums == {U64(0, 149), U64(0, 150), U64(1, 149), U64(1, 150)}
SvcNums == {U64(0, 1), U64(0, 2), U64(1, 1)}

AF_BP == 28
BP_SCHEME_IPN == 1
NewSockaddrBP(nodeNum, svcNum) ==
    [Family |-> AF_BP, Scheme |-> BP_SCHEME_IPN,
     NodeNum |-> Uint32(nodeNum), SvcNum |-> Uint32(svcNum)]
\* fmt.Sprintf("ipn:%d.%d", sa.NodeNum, sa.SvcNum): the text is kept as its
\* pieces, the numbers as the values whose decimal digits are printed
String(sa) == <<"ipn:", sa.NodeNum, ".", sa.SvcNum>>
\* the text ipn:<node>.<service> written with the numbers given
IpnText(nodeNum, svcNum) == <<"ipn:", nodeNum, ".", svcNum>>

InitAddr ==
    addrs = <<>>

\* GET requests for one URL that differ in their Authorization and Accept
\* headers (<<>>: the header is absent)
AuthSamples ==
    { <<>>, << <<"A">> >>, << <<"B">> >>, << <<"A">>, <<"B">> >>, << <<"A", ",", "B">> >> }
AcceptSamples ==
    { <<>>, << <<"q">> >>, << <<"q", "|", "a", "u", "t", "h", ":", "A">> >> }
\* Cookie values: none, sess\u0130on=1 (lowers to session=1) and \u00C9=1
\* (lowers to \u00E9=1, no marker)
CookieSamples ==
    { <<>>, << <<"s", "e", "s", "s", "U+0130", "o", "n", "=", "1">> >>,
      << <<"U+00C9", "=", "1">> >> }
HeaderMap(auth, accept, cookie) ==
    [name \in (IF auth # <<>> THEN {"Authorization"} ELSE {})
               \cup (IF accept # <<>> THEN {"Accept"} ELSE {})
               \cup (IF cookie # <<>> THEN {"Cookie"} ELSE {})
        |-> IF name = "Authorization" THEN auth
            ELSE IF name = "Accept" THEN accept ELSE cookie]
CredRequests ==
    { [Method |-> "GET", URL |-> "http://example.org/a",
       Headers |-> HeaderMap(auth, accept, cookie)] :
        auth \in AuthSamples, accept \in AcceptSamples, cookie \in CookieSamples }
\* the values of the Authorization header of a request, <<>> without one
AuthOf(r) == IF HasHeader(r, "Authorization") THEN r.Headers["Authorization"] ELSE <<>>

InitKey ==
    keyLog = <<>>

\* const fetchWorkers = 5
fetchWorkers == 5
\* the number of same-host links of a page that fills urlChan, the fetch
\* workers and bpResChan and leaves one link to send
HubLinks == 2 * PipeChanCap + fetchWorkers + 1
\* the pages a request can ask for: one link, or HubLinks links; the linked
\* pages are distinct, not visited before, and have no links themselves
FanOuts == {1, HubLinks}

InitFlow ==
    /\ hubFan = 0
    /\ hubSaved = FALSE
    /\ urlLen = 0
    /\ holding = 0
    /\ bpResLen = 0
    /\ sendLen = 0
    /\ saving = FALSE
    /\ toPush = 0

CertTasks == 1..NCertTasks
\* the ServerName values of the ClientHello messages; "" is a hello without one
HostNames == {"", "a.example", "b.example", "c.example"}
\* if hostname == "" { hostname = "unknown" }
HostKey(hostname) == IF hostname = "" THEN "unknown" ELSE hostname
\* delete(m, k)
MapDelete(m, k) == [x \in DOMAIN m \ {k} |-> m[x]]

InitCert ==
    /\ constructed = FALSE
    /\ maxCacheSize = 0
    /\ certCache = <<>>
    /\ certCacheKeys = <<>>
    /\ gpc = [t \in CertTasks |-> "idle"]
    /\ ghost = [t \in CertTasks |-> ""]
    /\ certCalls = 0
    /\ inserted = <<>>
    /\ certPanic = FALSE

InitGW ==
    /\ pc = [c \in Calls |-> "init"]
    /\ reqID = [c \in Calls |-> NoID]
    /\ responseChs = [i \in IDs |-> NoCall]
    /\ respCh = [c \in Calls |-> <<>>]
    /\ result = [c \in Calls |-> NoResult]
    /\ outbox = {}
    /\ produced = 0
    /\ dpc = "recv"
    /\ dcur = NoBundle
    /\ dch = NoCall
    /\ fate = [n \in Serials |-> "none"]
    /\ placed = [c \in Calls |-> 0]
    /\ consumed = [c \in Calls |-> 0]

\* what one call of BpService.ProxyRequest has done so far: the request, the
\* branch taken, the numbers of GetResponse, Gateway.ProxyRequest and
\* ReserveRequest calls, what the Gateway call returned, what the two file
\* reads returned, and the value returned
NoSvc == [req |-> NoReq, path |-> "none", lookups |-> 0, gw |-> 0, gwOut |-> NoEntry,
          reserves |-> 0, ph |-> "none", dp |-> "none", result |-> NoResult]
NoWork == [req |-> NoReq, found |-> FALSE, gw |-> 0, resp |-> NoEntry, sets |-> 0,
           setErr |-> FALSE, removes |-> 0, ret |-> "none"]

InitCache ==
    /\ cache = [key \in CacheKeys |-> NoEntry]
    /\ queue = <<>>
    /\ reserved = [r \in Requests |-> 0]
    /\ cpc = [k \in Clients |-> "init"]
    /\ svc = [k \in Clients |-> NoSvc]
    /\ wpc = [w \in Workers |-> "idle"]
    /\ wk = [w \in Workers |-> NoWork]

\* NewBpSender and NewBpReceiver have succeeded; Start() has been called
InitSock ==
    /\ sfd = "open"
    /\ sendLog = <<>>
    /\ sCloseLog = <<>>
    /\ rpc = "top"
    /\ rfd = "open"
    /\ stopChan = "open"
    /\ dataChan = <<>>
    /\ dataClosed = FALSE
    /\ recvd = 0
    /\ rcur = 0
    /\ errRun = 0
    /\ dropped = {}
    /\ rcl = "idle"
    /\ rCloseLog = <<>>
    /\ buf = [i \in 1..BufCells |-> 0]
    /\ held = <<>>

Init == InitGW /\ InitCache /\ InitSock /\ InitPipe /\ InitCli /\ InitAddr /\ InitCert /\ InitKey /\ InitFlow

(***************************************************************************)
(* sync.Map operations on the registry.                                    *)
(***************************************************************************)
Store(m, id, ch) == [m EXCEPT ![id] = ch]
\* mutant: the deferred Delete removes nothing
DeleteNothing(m, id) == m
Delete(m, id) == [m EXCEPT ![id] = NoCall]
\* mutant: the dispatcher takes any registered channel, whatever the ID
LoadAny(m, id) ==
    IF \E i \in DOMAIN m : m[i] # NoCall
    THEN m[CHOOSE i \in DOMAIN m : m[i] # NoCall /\ (m[id] = NoCall \/ i # id \/ \A j \in DOMAIN m : j # i => m[j] = NoCall)]
    ELSE NoCall
Load(m, id) == m[id]
Registered == {i \in IDs : responseChs[i] # NoCall}

\* generateID: any value of the random source, or the clock reading
generateID == IDs

\* the conversion DTNJsonResponse -> model.BpResponse of ProxyRequest
BpResponse(d) ==
    {[StatusCode |-> d.StatusCode, Headers |-> hh,
      Body |-> Base64Decode(d.Body), ContentType |-> d.ContentType,
      ContentLength |-> d.ContentLength] : hh \in HttpHeader(d.Headers)}

(***************************************************************************)
(* ProxyRequest, one action per step between two accesses to shared state. *)
(***************************************************************************)
\* reqID := generateID(); respCh := make(chan, 1); responseChs.Store(reqID, respCh)
Register(c) ==
    /\ pc[c] = "init"
    /\ \A b \in Calls : b < c => pc[b] # "init"
    /\ \E id \in generateID :
        /\ reqID' = [reqID EXCEPT ![c] = id]
        /\ responseChs' = Store(responseChs, id, c)
    /\ pc' = [pc EXCEPT ![c] = "registered"]
    /\ UNCHANGED <<stationvars, sockvars, cachevars, respCh, result, outbox, produced, dpc, dcur, dch, fate, placed, consumed>>

\* sendBundle succeeds: the request bundle is with the bundle layer
SendBundleOk(c) ==
    /\ pc[c] = "registered"
    /\ outbox' = outbox \cup {reqID[c]}
    /\ pc' = [pc EXCEPT ![c] = "waiting"]
    /\ UNCHANGED <<stationvars, sockvars, cachevars, reqID, responseChs, respCh, result, produced, dpc, dcur, dch, fate, placed, consumed>>

\* sendBundle fails: return the error (the deferred Delete is still to run)
SendBundleFail(c) ==
    /\ pc[c] = "registered"
    /\ result' = [result EXCEPT ![c] = [kind |-> "err_send"]]
    /\ pc' = [pc EXCEPT ![c] = "exit"]
    /\ UNCHANGED <<stationvars, sockvars, cachevars, reqID, responseChs, respCh, outbox, produced, dpc, dcur, dch, fate, placed, consumed>>

\* select case dtnResp := <-respCh
TakeResponse(c) ==
    /\ pc[c] = "waiting"
    /\ respCh[c] # <<>>
    /\ LET d == Head(respCh[c]) IN
        /\ respCh' = [respCh EXCEPT ![c] = Tail(@)]
        /\ consumed' = [consumed EXCEPT ![c] = @ + 1]
        /\ IF Base64Valid(d.Body)
           THEN \E resp \in BpResponse(d) :
                    result' = [result EXCEPT ![c] = [kind |-> "ok", resp |-> resp, from |-> d]]
           ELSE result' = [result EXCEPT ![c] = [kind |-> "err_decode", from |-> d]]
    /\ pc' = [pc EXCEPT ![c] = "exit"]
    /\ UNCHANGED <<stationvars, sockvars, cachevars, reqID, responseChs, outbox, produced, dpc, dcur, dch, fate, placed>>

\* select case <-ctx.Done(): the deadline elapsed or the caller cancelled
CtxDone(c) ==
    /\ pc[c] = "waiting"
    /\ result' = [result EXCEPT ![c] = [kind |-> "err_ctx"]]
    /\ pc' = [pc EXCEPT ![c] = "exit"]
    /\ UNCHANGED <<stationvars, sockvars, cachevars, reqID, responseChs, respCh, outbox, produced, dpc, dcur, dch, fate, placed, consumed>>

\* defer g.responseChs.Delete(reqID), then the call has returned
Exit(c) ==
    /\ pc[c] = "exit"
    /\ responseChs' = Delete(responseChs, reqID[c])
    /\ pc' = [pc EXCEPT ![c] = "done"]
    /\ UNCHANGED <<stationvars, sockvars, cachevars, reqID, respCh, result, outbox, produced, dpc, dcur, dch, fate, placed, consumed>>

(***************************************************************************)
(* The receiver goroutine of StartReceiver.  bprecvfile returns the next   *)
(* response bundle; it can answer a request, repeat an earlier answer,     *)
(* arrive late, carry an ID nobody waits for, or hold no JSON at all.      *)
(* Failures of bprecvfile or of reading the file leave the state as it is  *)
(* and are not actions of the model.                                       *)
(***************************************************************************)
\* the file content p read as the produced+1-th bundle
Bundle(p) ==
    [n |-> produced + 1, json |-> p.json, RequestID |-> p.RequestID,
     StatusCode |-> p.StatusCode, Headers |-> p.Headers, Body |-> p.Body,
     ContentType |-> p.ContentType, ContentLength |-> p.ContentLength]

\* cmdRecv.Run() returns and ioutil.ReadFile(targetFile) yields the content,
\* whatever request id it carries
DispRecv ==
    /\ dpc = "recv"
    /\ produced < MaxBundles
    /\ \E p \in Payloads :
          /\ dcur' = Bundle(p)
    /\ produced' = produced + 1
    /\ fate' = [fate EXCEPT ![produced + 1] = "read"]
    /\ dpc' = "parse"
    /\ UNCHANGED <<stationvars, sockvars, cachevars, pc, reqID, responseChs, respCh, result, outbox, dch, placed, consumed>>

\* json.Unmarshal fails: log and continue
DispBadJSON ==
    /\ dpc = "parse"
    /\ ~dcur.json
    /\ fate' = [fate EXCEPT ![dcur.n] = "badjson"]
    /\ dpc' = "recv"
    /\ dcur' = NoBundle
    /\ UNCHANGED <<stationvars, sockvars, cachevars, pc, reqID, responseChs, respCh, result, outbox, produced, dch, placed, consumed>>

\* responseChs.Load(dtnResp.RequestID) finds a channel
DispLoadHit ==
    /\ dpc = "parse"
    /\ dcur.json
    /\ Load(responseChs, dcur.RequestID) # NoCall
    /\ dch' = Load(responseChs, dcur.RequestID)
    /\ dpc' = "send"
    /\ UNCHANGED <<stationvars, sockvars, cachevars, pc, reqID, responseChs, respCh, result, outbox, produced, dcur, fate, placed, consumed>>

\* mutant: the dispatcher stops at a bundle nobody waits for
DispOrphanStuck ==
    /\ dpc = "parse"
    /\ dcur.json
    /\ responseChs[dcur.RequestID] = NoCall
    /\ dpc' = "stuck"
    /\ UNCHANGED <<stationvars, sockvars, cachevars, pc, reqID, responseChs, respCh, result, outbox, produced, dcur, dch, fate, placed, consumed>>

\* responseChs.Load finds nothing: "No waiting channel found"
DispOrphan ==
    /\ dpc = "parse"
    /\ dcur.json
    /\ Load(responseChs, dcur.RequestID) = NoCall
    /\ fate' = [fate EXCEPT ![dcur.n] = "orphan"]
    /\ dpc' = "recv"
    /\ dcur' = NoBundle
    /\ UNCHANGED <<stationvars, sockvars, cachevars, pc, reqID, responseChs, respCh, result, outbox, produced, dch, placed, consumed>>

\* select { case ch <- &dtnResp: }: the channel has room
DispDeliver ==
    /\ dpc = "send"
    /\ Len(respCh[dch]) < ChanCap
    /\ respCh' = [respCh EXCEPT ![dch] = Append(@, dcur)]
    /\ placed' = [placed EXCEPT ![dch] = @ + 1]
    /\ fate' = [fate EXCEPT ![dcur.n] = "delivered"]
    /\ dpc' = "recv"
    /\ dcur' = NoBundle
    /\ dch' = NoCall
    /\ UNCHANGED <<stationvars, sockvars, cachevars, pc, reqID, responseChs, result, outbox, produced, consumed>>

\* mutant: a blocking send; with the channel full the dispatcher waits
DispBlockedWaits ==
    /\ dpc = "send"
    /\ Len(respCh[dch]) >= ChanCap
    /\ FALSE
    /\ UNCHANGED vars

\* select { default: }: "Channel blocked or closed"
DispBlocked ==
    /\ dpc = "send"
    /\ Len(respCh[dch]) >= ChanCap
    /\ fate' = [fate EXCEPT ![dcur.n] = "blocked"]
    /\ dpc' = "recv"
    /\ dcur' = NoBundle
    /\ dch' = NoCall
    /\ UNCHANGED <<stationvars, sockvars, cachevars, pc, reqID, responseChs, respCh, result, outbox, produced, consumed, placed>>

NextGW ==
    \/ \E c \in Calls : Register(c)
    \/ \E c \in Calls : SendBundleOk(c)
    \/ \E c \in Calls : SendBundleFail(c)
    \/ \E c \in Calls : TakeResponse(c)
    \/ \E c \in Calls : CtxDone(c)
    \/ \E c \in Calls : Exit(c)
    \/ DispRecv
    \/ DispBadJSON
    \/ DispLoadHit
    \/ DispOrphan
    \/ DispDeliver
    \/ DispBlocked

SpecGW == Init /\ [][NextGW]_vars

(***************************************************************************)
(* Properties of the gateway (checked under SpecGW).                       *)
(***************************************************************************)
\* calls that have registered and not yet returned
InProgress == {c \in Calls : pc[c] \in {"registered", "waiting", "exit"}}

\* C1: a call that returns successfully returns the converted status, headers
\* and body of a bundle the dispatcher delivered whose request_id is the ID this
\* call generated and registered, whatever the interleaving of calls and the
\* arrival order of bundles.
C1_ReturnsOwnResponse ==
    \A c \in Calls : result[c].kind = "ok" =>
        /\ result[c].from.RequestID = reqID[c]
        /\ fate[result[c].from.n] = "delivered"
        /\ result[c].resp.StatusCode = result[c].from.StatusCode
        /\ result[c].resp.Headers \in HttpHeader(result[c].from.Headers)
        /\ result[c].resp.Body = Base64Decode(result[c].from.Body)

\* two calls with different IDs both succeeded, the call that started first
\* with the bundle that arrived last
C1_Witness ==
    /\ result[1].kind = "ok" /\ result[2].kind = "ok"
    /\ reqID[1] # reqID[2]
    /\ result[1].from.n > result[2].from.n

\* C2: when a call returns (by whichever path) the registry holds no entry
\* under its ID, and in every state each registry entry belongs to a call in
\* progress that generated that ID, so there are at most as many entries as
\* calls in progress.
C2_RegistryBounded ==
    /\ [](/\ Cardinality(Registered) <= Cardinality(InProgress)
          /\ \A i \in Registered : responseChs[i] \in InProgress /\ reqID[responseChs[i]] = i)
    /\ [][\A c \in Calls : (pc[c] # "done" /\ pc'[c] = "done") =>
                responseChs'[reqID[c]] = NoCall]_vars

\* both calls have returned, one on a decode failure and one on the context,
\* and the registry is empty
C2_Witness ==
    /\ pc[1] = "done" /\ pc[2] = "done"
    /\ {result[1].kind, result[2].kind} = {"err_decode", "err_ctx"}
    /\ Registered = {}

\* C3 (as claimed): a call that returns without any response having been put
\* in its slot returns the send error or the timeout/cancellation error, and a
\* bundle carrying the ID of a call that has returned on its context is never
\* taken by the dispatcher for delivery to a slot.
C3_LateResponseOrphaned ==
    /\ [](\A c \in Calls : (pc[c] \in {"exit", "done"} /\ placed[c] = 0) =>
            result[c].kind \in {"err_send", "err_ctx"})
    /\ [][\A a \in Calls :
            (/\ pc[a] = "done" /\ result[a].kind = "err_ctx"
             /\ dpc = "parse" /\ dcur.json /\ dcur.RequestID = reqID[a]
             /\ dpc' # dpc)
            => (dpc' = "recv" /\ fate'[dcur.n] = "orphan" /\ respCh' = respCh)]_vars

\* the dispatcher is looking at a decoded bundle whose ID has no slot
OrphanCase == dpc = "parse" /\ dcur.json /\ responseChs[dcur.RequestID] = NoCall

\* C4: the dispatcher's step on a bundle whose ID has no slot changes no slot,
\* no registry entry and no call, marks the bundle dropped and returns to the
\* top of the receive loop; the step is always possible, a dropped bundle stays
\* dropped, and it is in no slot and in no call's result.
C4_OrphanDropped ==
    /\ [](OrphanCase => ENABLED DispOrphan)
    /\ [](\A n \in Serials : fate[n] = "orphan" =>
            /\ \A c \in Calls : \A k \in 1..Len(respCh[c]) : respCh[c][k].n # n
            /\ \A c \in Calls : result[c].kind \in {"ok", "err_decode"} => result[c].from.n # n
            /\ dcur.n # n)
    /\ [][(OrphanCase /\ dpc' # dpc) =>
            /\ UNCHANGED <<responseChs, respCh, placed, consumed, pc, reqID, result>>
            /\ dpc' = "recv" /\ dcur' = NoBundle
            /\ fate'[dcur.n] = "orphan"]_vars
    /\ [][\A n \in Serials : fate[n] = "orphan" => fate'[n] = "orphan"]_vars

\* the first bundle was dropped as an orphan while a call was outstanding and
\* the next bundle was still delivered
C4_Witness ==
    /\ MaxBundles >= 2
    /\ fate[1] = "orphan" /\ fate[2] = "delivered"
    /\ \E c \in Calls : pc[c] = "waiting" /\ respCh[c] # <<>>

\* C5 (as claimed): over a call's lifetime at most one response is put into
\* its slot and the call takes at most one.
C5_AtMostOnePlaced ==
    \A c \in Calls : placed[c] <= 1 /\ consumed[c] <= 1

\* C6 (as claimed): no two calls in progress hold the same ID.
C6_UniqueOutstandingIDs ==
    \A a, b \in InProgress : a # b => reqID[a] # reqID[b]

(***************************************************************************)
(* Part II.  The cache store (contract of the repository), the service and *)
(* the worker.                                                             *)
(***************************************************************************)
\* GetResponse(key): the stored response, found or not
GetResponse(key) == cache[key]
Found(key) == GetResponse(key) # NoEntry
\* SetResponseWithURL(req, resp, ttl): the entry is stored under the request's key
SetResponse(req, resp) == [cache EXCEPT ![GenerateCacheKey(req)] = resp]
\* ReserveRequest(req): the reservation is appended to the queue
Reserve(q, req) == Append(q, req)

\* the content type utils.GetPlaceholderContent infers from the URL
InferContentType(url) ==
    IF url = "http://example.org/logo.png" THEN ImagePng ELSE TextHtml
\* mutant: no content type counts as an image
IsImageNever(contentType) == FALSE
\* strings.HasPrefix(contentType, "image/")
IsImage(contentType) == HasPrefix(contentType, <<"i", "m", "a", "g", "e", "/">>)

\* outcomes of utils.GetPlaceholderContent and utils.LoadDefaultPage on the
\* local file system
PlaceholderOutcomes == {"body", "nil", "err"}
DefaultPageOutcomes == {"ok", "err"}

\* err == nil && placeholderBody != nil
Produced(ph) == IF ph = "body" THEN "body" ELSE "failed"
\* what LoadDefaultPage returned, "none" when it was not called
Consulted(ph, dp) == IF ph = "body" THEN "none" ELSE dp

\* mutant: no default page is tried when the placeholder fails
SynthesizeNoFallback(req, ph, dp) ==
    IF ph = "body"
    THEN [kind |-> "placeholder", StatusCode |-> 200,
          ContentType |-> InferContentType(req.URL)]
    ELSE [kind |-> "unavailable", StatusCode |-> 503,
          ContentType |-> TextPlainUtf8]

\* the response BpService.ProxyRequest builds after a miss
Synthesize(req, ph, dp) ==
    IF ph = "body"
    THEN [kind |-> "placeholder", StatusCode |-> 200,
          ContentType |-> InferContentType(req.URL)]
    ELSE IF dp = "ok"
    THEN [kind |-> "default_page", StatusCode |-> 200,
          ContentType |-> TextHtmlUtf8]
    ELSE [kind |-> "unavailable", StatusCode |-> 503,
          ContentType |-> TextPlainUtf8]

\* the result of a Gateway call as the service returns it
GwResult(o) ==
    IF o = GwError THEN [kind |-> "gw_error"] ELSE [kind |-> "gw_response", resp |-> o]

(***************************************************************************)
(* BpService.ProxyRequest for client k (clients are numbered in the order  *)
(* their calls start).                                                     *)
(***************************************************************************)
MayStart(k) == cpc[k] = "init" /\ \A j \in Clients : j < k => cpc[j] # "init"

\* !breq.IsCacheable(): forward to the Gateway
SvcBypass(k) ==
    /\ MayStart(k)
    /\ \E r \in Requests :
        /\ ~IsCacheable(r)
        /\ svc' = [svc EXCEPT ![k] = [NoSvc EXCEPT !.req = r, !.path = "bypass", !.gw = 1]]
    /\ cpc' = [cpc EXCEPT ![k] = "gw"]
    /\ UNCHANGED <<stationvars, sockvars, gwvars, cache, queue, reserved, wpc, wk>>

\* GetResponse returns an error: forward to the Gateway
SvcLookupErr(k) ==
    /\ MayStart(k)
    /\ \E r \in Requests :
        /\ IsCacheable(r)
        /\ svc' = [svc EXCEPT ![k] = [NoSvc EXCEPT !.req = r, !.path = "lookup_error",
                                         !.lookups = 1, !.gw = 1]]
    /\ cpc' = [cpc EXCEPT ![k] = "gw"]
    /\ UNCHANGED <<stationvars, sockvars, gwvars, cache, queue, reserved, wpc, wk>>

\* the Gateway call of the two paths above returns
SvcGwReturn(k) ==
    /\ cpc[k] = "gw"
    /\ \E o \in GwOutcomes :
        svc' = [svc EXCEPT ![k].gwOut = o, ![k].result = GwResult(o)]
    /\ cpc' = [cpc EXCEPT ![k] = "done"]
    /\ UNCHANGED <<stationvars, sockvars, gwvars, cache, queue, reserved, wpc, wk>>

\* mutant: a hit reserves the request as well
SvcHitReserves(k) ==
    /\ MayStart(k)
    /\ \E r \in Requests :
        /\ IsCacheable(r)
        /\ Found(GenerateCacheKey(r))
        /\ queue' = Reserve(queue, r)
        /\ reserved' = [reserved EXCEPT ![r] = @ + 1]
        /\ svc' = [svc EXCEPT ![k] = [NoSvc EXCEPT !.req = r, !.path = "hit", !.lookups = 1,
                        !.result = [kind |-> "cached", resp |-> GetResponse(GenerateCacheKey(r))]]]
    /\ cpc' = [cpc EXCEPT ![k] = "done"]
    /\ UNCHANGED <<stationvars, sockvars, gwvars, cache, wpc, wk>>

\* found: return the cached response
SvcHit(k) ==
    /\ MayStart(k)
    /\ \E r \in Requests :
        /\ IsCacheable(r)
        /\ Found(GenerateCacheKey(r))
        /\ svc' = [svc EXCEPT ![k] = [NoSvc EXCEPT !.req = r, !.path = "hit", !.lookups = 1,
                        !.result = [kind |-> "cached", resp |-> GetResponse(GenerateCacheKey(r))]]]
    /\ cpc' = [cpc EXCEPT ![k] = "done"]
    /\ UNCHANGED <<stationvars, sockvars, gwvars, cache, queue, reserved, wpc, wk>>

\* not found: go on to the placeholder and the reservation
SvcMiss(k) ==
    /\ MayStart(k)
    /\ \E r \in Requests :
        /\ IsCacheable(r)
        /\ ~Found(GenerateCacheKey(r))
        /\ svc' = [svc EXCEPT ![k] = [NoSvc EXCEPT !.req = r, !.path = "miss", !.lookups = 1]]
    /\ cpc' = [cpc EXCEPT ![k] = "miss"]
    /\ UNCHANGED <<stationvars, sockvars, gwvars, cache, queue, reserved, wpc, wk>>

\* isImage: the reservation is skipped
SvcSkipReserve(k) ==
    /\ cpc[k] = "miss"
    /\ IsImage(InferContentType(svc[k].req.URL))
    /\ \E ph \in PlaceholderOutcomes, dp \in DefaultPageOutcomes :
        svc' = [svc EXCEPT ![k].result = Synthesize(svc[k].req, ph, dp),
                           ![k].ph = Produced(ph), ![k].dp = Consulted(ph, dp)]
    /\ cpc' = [cpc EXCEPT ![k] = "done"]
    /\ UNCHANGED <<stationvars, sockvars, gwvars, cache, queue, reserved, wpc, wk>>

\* mutant: a request that is already reserved is not reserved again
SvcReserveOkDedup(k) ==
    /\ cpc[k] = "miss"
    /\ ~IsImage(InferContentType(svc[k].req.URL))
    /\ queue' = IF reserved[svc[k].req] > 0 THEN queue ELSE Reserve(queue, svc[k].req)
    /\ reserved' = [reserved EXCEPT ![svc[k].req] = IF @ > 0 THEN @ ELSE @ + 1]
    /\ \E ph \in PlaceholderOutcomes, dp \in DefaultPageOutcomes :
        svc' = [svc EXCEPT ![k].result = Synthesize(svc[k].req, ph, dp),
                           ![k].ph = Produced(ph), ![k].dp = Consulted(ph, dp),
                           ![k].reserves = @ + 1]
    /\ cpc' = [cpc EXCEPT ![k] = "done"]
    /\ UNCHANGED <<stationvars, sockvars, gwvars, cache, wpc, wk>>

\* ReserveRequest succeeds
SvcReserveOk(k) ==
    /\ cpc[k] = "miss"
    /\ ~IsImage(InferContentType(svc[k].req.URL))
    /\ queue' = Reserve(queue, svc[k].req)
    /\ reserved' = [reserved EXCEPT ![svc[k].req] = @ + 1]
    /\ \E ph \in PlaceholderOutcomes, dp \in DefaultPageOutcomes :
        svc' = [svc EXCEPT ![k].result = Synthesize(svc[k].req, ph, dp),
                           ![k].ph = Produced(ph), ![k].dp = Consulted(ph, dp), ![k].reserves = @ + 1]
    /\ cpc' = [cpc EXCEPT ![k] = "done"]
    /\ UNCHANGED <<stationvars, sockvars, gwvars, cache, wpc, wk>>

\* mutant: a failed ReserveRequest fails the request
SvcReserveErrFails(k) ==
    /\ cpc[k] = "miss"
    /\ ~IsImage(InferContentType(svc[k].req.URL))
    /\ \E ph \in PlaceholderOutcomes, dp \in DefaultPageOutcomes :
        svc' = [svc EXCEPT ![k].result = [kind |-> "reserve_error"],
                           ![k].ph = Produced(ph), ![k].dp = Consulted(ph, dp),
                           ![k].reserves = @ + 1, ![k].path = "miss_reserve_error"]
    /\ cpc' = [cpc EXCEPT ![k] = "done"]
    /\ UNCHANGED <<stationvars, sockvars, gwvars, cache, queue, reserved, wpc, wk>>

\* ReserveRequest returns an error: logged, the response is built all the same
SvcReserveErr(k) ==
    /\ cpc[k] = "miss"
    /\ ~IsImage(InferContentType(svc[k].req.URL))
    /\ \E ph \in PlaceholderOutcomes, dp \in DefaultPageOutcomes :
        svc' = [svc EXCEPT ![k].result = Synthesize(svc[k].req, ph, dp),
                           ![k].ph = Produced(ph), ![k].dp = Consulted(ph, dp),
                           ![k].reserves = @ + 1, ![k].path = "miss_reserve_error"]
    /\ cpc' = [cpc EXCEPT ![k] = "done"]
    /\ UNCHANGED <<stationvars, sockvars, gwvars, cache, queue, reserved, wpc, wk>>

(***************************************************************************)
(* A worker: pop a reservation, then RequestHandler.HandleRequest.         *)
(***************************************************************************)
\* BLPopReservedRequest returns the oldest reservation to one waiting worker
\* (the workers are interchangeable: the lowest idle one takes it)
WorkerPop(w) ==
    /\ wpc[w] = "idle"
    /\ \A v \in Workers : v < w => wpc[v] # "idle"
    /\ queue # <<>>
    /\ queue' = Tail(queue)
    /\ wk' = [wk EXCEPT ![w] = [NoWork EXCEPT !.req = Head(queue)]]
    /\ wpc' = [wpc EXCEPT ![w] = "check"]
    /\ UNCHANGED <<stationvars, sockvars, gwvars, cache, reserved, cpc, svc>>

\* mutant: the re-check's result is ignored and the Gateway is called
WorkerFoundFetches(w) ==
    /\ wpc[w] = "check"
    /\ Found(GenerateCacheKey(wk[w].req))
    /\ wk' = [wk EXCEPT ![w].gw = @ + 1]
    /\ wpc' = [wpc EXCEPT ![w] = "fetch"]
    /\ UNCHANGED <<stationvars, sockvars, gwvars, cache, queue, reserved, cpc, svc>>

\* GetResponse: already cached, skip to the removal
WorkerFound(w) ==
    /\ wpc[w] = "check"
    /\ Found(GenerateCacheKey(wk[w].req))
    /\ wk' = [wk EXCEPT ![w].found = TRUE]
    /\ wpc' = [wpc EXCEPT ![w] = "remove"]
    /\ UNCHANGED <<stationvars, sockvars, gwvars, cache, queue, reserved, cpc, svc>>

\* GetResponse: not cached; the Gateway call starts
WorkerNotFound(w) ==
    /\ wpc[w] = "check"
    /\ ~Found(GenerateCacheKey(wk[w].req))
    /\ wk' = [wk EXCEPT ![w].gw = @ + 1]
    /\ wpc' = [wpc EXCEPT ![w] = "fetch"]
    /\ UNCHANGED <<stationvars, sockvars, gwvars, cache, queue, reserved, cpc, svc>>

\* GetResponse returns an error: "continue", the Gateway call starts
WorkerCheckErr(w) ==
    /\ wpc[w] = "check"
    /\ wk' = [wk EXCEPT ![w].gw = @ + 1, ![w].ret = "check_error"]
    /\ wpc' = [wpc EXCEPT ![w] = "fetch"]
    /\ UNCHANGED <<stationvars, sockvars, gwvars, cache, queue, reserved, cpc, svc>>

\* mutant: after a Gateway failure the reservation goes back on the queue
WorkerGwErrorRequeues(w) ==
    /\ wpc[w] = "fetch"
    /\ wk' = [wk EXCEPT ![w].resp = GwError, ![w].ret = "nil"]
    /\ queue' = Append(queue, wk[w].req)
    /\ wpc' = [wpc EXCEPT ![w] = "idle"]
    /\ UNCHANGED <<stationvars, sockvars, gwvars, cache, reserved, cpc, svc>>

\* the Gateway call fails: return nil
WorkerGwError(w) ==
    /\ wpc[w] = "fetch"
    /\ wk' = [wk EXCEPT ![w].resp = GwError, ![w].ret = "nil"]
    /\ wpc' = [wpc EXCEPT ![w] = "idle"]
    /\ UNCHANGED <<stationvars, sockvars, gwvars, cache, queue, reserved, cpc, svc>>

\* mutant: a response is stored whatever its status
WorkerNot200Stores(w) ==
    /\ wpc[w] = "fetch"
    /\ \E o \in GwResponses :
        /\ o.StatusCode # 200
        /\ wk' = [wk EXCEPT ![w].resp = o]
    /\ wpc' = [wpc EXCEPT ![w] = "store"]
    /\ UNCHANGED <<stationvars, sockvars, gwvars, cache, queue, reserved, cpc, svc>>

\* resp.StatusCode != 200: no cache entry, go to the removal
WorkerNot200(w) ==
    /\ wpc[w] = "fetch"
    /\ \E o \in GwResponses :
        /\ o.StatusCode # 200
        /\ wk' = [wk EXCEPT ![w].resp = o]
    /\ wpc' = [wpc EXCEPT ![w] = "remove"]
    /\ UNCHANGED <<stationvars, sockvars, gwvars, cache, queue, reserved, cpc, svc>>

\* mutant: a 200 response is dropped like any other status
Worker200Dropped(w) ==
    /\ wpc[w] = "fetch"
    /\ \E o \in GwResponses :
        /\ o.StatusCode = 200
        /\ wk' = [wk EXCEPT ![w].resp = o]
    /\ wpc' = [wpc EXCEPT ![w] = "remove"]
    /\ UNCHANGED <<stationvars, sockvars, gwvars, cache, queue, reserved, cpc, svc>>

\* resp.StatusCode == 200: go to SetResponseWithURL
Worker200(w) ==
    /\ wpc[w] = "fetch"
    /\ \E o \in GwResponses :
        /\ o.StatusCode = 200
        /\ wk' = [wk EXCEPT ![w].resp = o]
    /\ wpc' = [wpc EXCEPT ![w] = "store"]
    /\ UNCHANGED <<stationvars, sockvars, gwvars, cache, queue, reserved, cpc, svc>>

\* SetResponseWithURL succeeds
WorkerStoreOk(w) ==
    /\ wpc[w] = "store"
    /\ cache' = SetResponse(wk[w].req, wk[w].resp)
    /\ wk' = [wk EXCEPT ![w].sets = @ + 1]
    /\ wpc' = [wpc EXCEPT ![w] = "remove"]
    /\ UNCHANGED <<stationvars, sockvars, gwvars, queue, reserved, cpc, svc>>

\* SetResponseWithURL returns an error: logged, go to the removal
WorkerStoreErr(w) ==
    /\ wpc[w] = "store"
    /\ wk' = [wk EXCEPT ![w].sets = @ + 1, ![w].setErr = TRUE]
    /\ wpc' = [wpc EXCEPT ![w] = "remove"]
    /\ UNCHANGED <<stationvars, sockvars, gwvars, cache, queue, reserved, cpc, svc>>

\* _removeReservedRequest succeeds; HandleRequest returns nil
WorkerRemoveOk(w) ==
    /\ wpc[w] = "remove"
    /\ reserved' = [reserved EXCEPT ![wk[w].req] = IF @ > 0 THEN @ - 1 ELSE 0]
    /\ wk' = [wk EXCEPT ![w].removes = @ + 1, ![w].ret = "nil"]
    /\ wpc' = [wpc EXCEPT ![w] = "idle"]
    /\ UNCHANGED <<stationvars, sockvars, gwvars, cache, queue, cpc, svc>>

\* RemoveReservedRequest returns an error: HandleRequest returns it on the
\* last path and nil on the two early paths
WorkerRemoveErr(w) ==
    /\ wpc[w] = "remove"
    /\ wk' = [wk EXCEPT ![w].removes = @ + 1,
                        ![w].ret = IF wk[w].found \/ wk[w].resp.StatusCode # 200
                                   THEN "nil" ELSE "remove_error"]
    /\ wpc' = [wpc EXCEPT ![w] = "idle"]
    /\ UNCHANGED <<stationvars, sockvars, gwvars, cache, queue, reserved, cpc, svc>>

\* an entry's TTL elapses (or the cleanup deletes it)
Expire ==
    /\ \E key \in CacheKeys :
        /\ Found(key)
        /\ cache' = [cache EXCEPT ![key] = NoEntry]
    /\ UNCHANGED <<stationvars, sockvars, gwvars, queue, reserved, cpc, svc, wpc, wk>>

NextCache ==
    \/ \E k \in Clients : SvcBypass(k)
    \/ \E k \in Clients : SvcLookupErr(k)
    \/ \E k \in Clients : SvcGwReturn(k)
    \/ \E k \in Clients : SvcHit(k)
    \/ \E k \in Clients : SvcMiss(k)
    \/ \E k \in Clients : SvcSkipReserve(k)
    \/ \E k \in Clients : SvcReserveOk(k)
    \/ \E k \in Clients : SvcReserveErr(k)
    \/ \E w \in Workers : WorkerPop(w)
    \/ \E w \in Workers : WorkerFound(w)
    \/ \E w \in Workers : WorkerNotFound(w)
    \/ \E w \in Workers : WorkerCheckErr(w)
    \/ \E w \in Workers : WorkerGwError(w)
    \/ \E w \in Workers : WorkerNot200(w)
    \/ \E w \in Workers : Worker200(w)
    \/ \E w \in Workers : WorkerStoreOk(w)
    \/ \E w \in Workers : WorkerStoreErr(w)
    \/ \E w \in Workers : WorkerRemoveOk(w)
    \/ \E w \in Workers : WorkerRemoveErr(w)
    \/ Expire

SpecCache == Init /\ [][NextCache]_vars

(***************************************************************************)
(* Properties of the service and the worker (checked under SpecCache).     *)
(***************************************************************************)
LocalKinds == {"placeholder", "default_page", "unavailable"}
KeyOf(r) == GenerateCacheKey(r)
\* client k takes the first step of its call in this step
Starts(k) == cpc[k] = "init" /\ cpc'[k] # "init"
\* client k finishes the miss path in this step
EndsMiss(k) == cpc[k] = "miss" /\ cpc'[k] = "done"

\* C7 (as claimed, store and file-system failures set aside): the first
\* request for a fresh cacheable key misses, enqueues one reservation and
\* returns a locally built response; a worker that got 200 for a reservation
\* stores the entry; a later request that finds the entry returns it without
\* a reservation and without a Gateway call.
C7_AsClaimed ==
    /\ [][\A k \in Clients : (Starts(k) /\ IsCacheable(svc'[k].req) /\ ~Found(KeyOf(svc'[k].req)))
            => svc'[k].path \in {"miss", "lookup_error"}]_vars
    /\ [][\A k \in Clients : EndsMiss(k) =>
            /\ svc'[k].result.kind \in LocalKinds
            /\ svc'[k].gw = 0
            /\ \/ queue' = Append(queue, svc[k].req)
               \/ (svc'[k].path = "miss_reserve_error" /\ queue' = queue)]_vars
    /\ [][\A w \in Workers : (wpc[w] = "fetch" /\ wpc'[w] # "fetch" /\ wk'[w].resp.StatusCode = 200)
            => wpc'[w] = "store"]_vars
    /\ [][\A w \in Workers : (wpc[w] = "store" /\ wpc'[w] # "store") =>
            \/ cache' = [cache EXCEPT ![KeyOf(wk[w].req)] = wk[w].resp]
            \/ (wk'[w].setErr /\ cache' = cache)]_vars
    /\ [][\A k \in Clients :
            (Starts(k) /\ IsCacheable(svc'[k].req) /\ Found(KeyOf(svc'[k].req))) =>
                \/ svc'[k].path = "lookup_error"
                \/ (svc'[k].path = "hit" /\ queue' = queue /\ svc'[k].gw = 0)]_vars

\* C7 (amended): (a) the first request, when the lookup reports a miss, makes
\* no Gateway call, returns a locally built response, and enqueues exactly one
\* reservation if the URL's inferred content type is no image (and the store
\* accepts it) and none if it is an image; (b) a worker
\* that got 200 calls SetResponseWithURL, which creates the entry for the key
\* unless the store reports an error; (c) a later request that finds the entry
\* returns it, enqueues nothing and makes no Gateway call.
C7_CacheAside ==
    /\ [][\A k \in Clients : (Starts(k) /\ IsCacheable(svc'[k].req) /\ ~Found(KeyOf(svc'[k].req)))
            => svc'[k].path \in {"miss", "lookup_error"}]_vars
    /\ [][\A k \in Clients : EndsMiss(k) =>
            /\ svc'[k].result.kind \in LocalKinds
            /\ svc'[k].gw = 0
            /\ IF InferContentType(svc[k].req.URL) = ImagePng
               THEN queue' = queue
               ELSE \/ queue' = Append(queue, svc[k].req)
                    \/ (svc'[k].path = "miss_reserve_error" /\ queue' = queue)]_vars
    /\ [][\A w \in Workers : (wpc[w] = "fetch" /\ wpc'[w] # "fetch" /\ wk'[w].resp.StatusCode = 200)
            => wpc'[w] = "store"]_vars
    /\ [][\A w \in Workers : (wpc[w] = "store" /\ wpc'[w] # "store") =>
            \/ cache' = [cache EXCEPT ![KeyOf(wk[w].req)] = wk[w].resp]
            \/ (wk'[w].setErr /\ cache' = cache)]_vars
    /\ [][\A k \in Clients :
            (Starts(k) /\ IsCacheable(svc'[k].req) /\ Found(KeyOf(svc'[k].req))) =>
                \/ svc'[k].path = "lookup_error"
                \/ /\ svc'[k].path = "hit"
                   /\ svc'[k].result = [kind |-> "cached", resp |-> cache[KeyOf(svc'[k].req)]]
                   /\ queue' = queue
                   /\ svc'[k].gw = 0]_vars

\* the whole run: client 1 missed on the page and reserved it, a worker fetched
\* it with 200 and stored it, client 2 was served the stored response
C7_Witness ==
    /\ cpc[1] = "done" /\ svc[1].path = "miss" /\ svc[1].req = ReqPage /\ svc[1].reserves = 1
    /\ svc[1].result.kind = "placeholder"
    /\ \E w \in Workers :
        /\ wpc[w] = "idle" /\ wk[w].req = ReqPage /\ wk[w].resp.StatusCode = 200
        /\ wk[w].sets = 1 /\ ~wk[w].setErr /\ wk[w].removes = 1
    /\ cpc[2] = "done" /\ svc[2].path = "hit" /\ svc[2].req = ReqPage
    /\ svc[2].result.resp.StatusCode = 200
    /\ queue = <<>>

\* C8 (as claimed): every HandleRequest that has returned has called
\* RemoveReservedRequest for its reservation.
C8_AlwaysRemoved ==
    \A w \in Workers : (wpc[w] = "idle" /\ wk[w].req # NoReq) => wk[w].removes = 1

\* C9: a call on the miss path makes no Gateway call, calls ReserveRequest once
\* if the URL's inferred content type is no image and not at all if it is, and
\* returns a response built locally.
C9_MissReservesLocally ==
    \A k \in Clients : svc[k].path \in {"miss", "miss_reserve_error"} =>
        /\ svc[k].gw = 0
        /\ cpc[k] = "miss" => svc[k].reserves = 0
        /\ cpc[k] = "done" =>
            /\ svc[k].reserves = (IF InferContentType(svc[k].req.URL) = ImagePng THEN 0 ELSE 1)
            /\ svc[k].result.kind \in LocalKinds
            /\ svc[k].result.StatusCode \in {200, 503}

\* one miss on the image (no reservation) and one on the page (one reservation)
C9_Witness ==
    \E j, k \in Clients :
        /\ cpc[j] = "done" /\ svc[j].path = "miss" /\ svc[j].req = ReqImage /\ svc[j].reserves = 0
        /\ cpc[k] = "done" /\ svc[k].path = "miss" /\ svc[k].req = ReqPage /\ svc[k].reserves = 1
        /\ queue = <<ReqPage>>

\* C10: a call for a cacheable request that finds the entry (the lookup not
\* failing) returns that entry in one step that changes nothing else: the
\* cache, the queue and the reservations stay as they are, no Gateway call and
\* no ReserveRequest call is made, and no other call or worker is touched.
C10_HitFrame ==
    [][\A k \in Clients :
        (/\ Starts(k) /\ IsCacheable(svc'[k].req) /\ Found(KeyOf(svc'[k].req))
         /\ svc'[k].path # "lookup_error") =>
            /\ cpc'[k] = "done"
            /\ svc'[k] = [NoSvc EXCEPT !.req = svc'[k].req, !.path = "hit", !.lookups = 1,
                            !.result = [kind |-> "cached", resp |-> cache[KeyOf(svc'[k].req)]]]
            /\ UNCHANGED <<cache, queue, reserved, wpc, wk, gwvars>>
            /\ \A j \in Clients \ {k} : cpc'[j] = cpc[j] /\ svc'[j] = svc[j]]_vars

\* a call was answered from the cache while another reservation was waiting
C10_Witness ==
    \E k \in Clients :
        /\ cpc[k] = "done" /\ svc[k].path = "hit"
        /\ svc[k].result.resp = cache[KeyOf(svc[k].req)]
        /\ svc[k].result.resp.StatusCode = 200
        /\ svc[k].gw = 0 /\ svc[k].reserves = 0

\* a Cookie header with a session, auth or token marker, as the claim words it
HasMarker(r) ==
    /\ "Cookie" \in DOMAIN r.Headers
    /\ \E i \in 1..Len(r.Headers["Cookie"]) :
         \E word \in {WordSession, WordAuth, WordToken} :
            Contains(ToLower(r.Headers["Cookie"][i]), word)
\* the result of one Gateway call, handed on as it is
Forwarded(o) == IF o = GwError THEN [kind |-> "gw_error"] ELSE [kind |-> "gw_response", resp |-> o]

\* C11: a call for a request whose method is not GET, or whose Cookie header
\* holds a session/auth/token marker, takes the bypass: it makes no GetResponse
\* call and no ReserveRequest call, leaves the cache and the queue as they
\* are, makes exactly one Gateway call and returns exactly what that call
\* returned (the response or the error).
C11_BypassFrame ==
    /\ [](\A k \in Clients : svc[k].path = "bypass" =>
            /\ svc[k].lookups = 0 /\ svc[k].reserves = 0 /\ svc[k].gw = 1
            /\ cpc[k] = "gw" => svc[k].result = NoResult
            /\ cpc[k] = "done" =>
                 svc[k].gwOut \in GwOutcomes /\ svc[k].result = Forwarded(svc[k].gwOut))
    /\ [][\A k \in Clients :
            (Starts(k) /\ (svc'[k].req.Method # "GET" \/ HasMarker(svc'[k].req))) =>
                svc'[k].path = "bypass" /\ UNCHANGED <<cache, queue, reserved>>]_vars
    /\ [][\A k \in Clients : (svc[k].path = "bypass" /\ cpc'[k] # cpc[k]) =>
            UNCHANGED <<cache, queue, reserved>>]_vars

\* a POST was answered with the Gateway's response and a GET with a session
\* cookie with the Gateway's error
C11_Witness ==
    \E j, k \in Clients :
        /\ cpc[j] = "done" /\ svc[j].req = ReqPost /\ svc[j].path = "bypass"
        /\ svc[j].result = [kind |-> "gw_response", resp |-> [StatusCode |-> 404, Body |-> "nf"]]
        /\ cpc[k] = "done" /\ svc[k].req = ReqSession /\ svc[k].path = "bypass"
        /\ svc[k].result = [kind |-> "gw_error"]

\* C12: a call that has finished the miss path returned a response and no
\* error; its status is 200 (the placeholder, or the default page when no
\* placeholder was produced) unless neither the placeholder nor the default
\* page could be produced, and only then it is 503.
C12_MissStatus ==
    \A k \in Clients : (svc[k].path \in {"miss", "miss_reserve_error"} /\ cpc[k] = "done") =>
        /\ svc[k].result.kind \in LocalKinds
        /\ svc[k].ph \in {"body", "failed"}
        /\ svc[k].ph = "body" => svc[k].result.kind = "placeholder"
        /\ (svc[k].ph = "failed" /\ svc[k].dp = "ok") => svc[k].result.kind = "default_page"
        /\ (svc[k].ph = "failed" /\ svc[k].dp = "err") => svc[k].result.kind = "unavailable"
        /\ svc[k].result.StatusCode =
             (IF svc[k].ph = "failed" /\ svc[k].dp = "err" THEN 503 ELSE 200)

\* one miss answered with the default page (200) and one with 503
C12_Witness ==
    \E j, k \in Clients :
        /\ cpc[j] = "done" /\ svc[j].path = "miss" /\ svc[j].ph = "failed" /\ svc[j].dp = "ok"
        /\ svc[j].result.StatusCode = 200
        /\ cpc[k] = "done" /\ svc[k].path = "miss" /\ svc[k].ph = "failed" /\ svc[k].dp = "err"
        /\ svc[k].result.StatusCode = 503

\* C13: a worker calls SetResponseWithURL for its reservation exactly when its
\* Gateway call returned a response with status 200; the cache changes only by
\* such a store (or by an entry expiring); the step in which a Gateway error or
\* another status comes back leaves the cache as it is and does not lead to a
\* store.
C13_WriteIff200 ==
    /\ [](\A w \in Workers :
            /\ wk[w].sets <= 1
            /\ wk[w].sets = 1 => wk[w].resp.StatusCode = 200
            /\ (wpc[w] \in {"remove", "idle"} /\ wk[w].resp.StatusCode = 200) => wk[w].sets = 1)
    /\ [][cache' # cache =>
            \/ \E key \in CacheKeys : Found(key) /\ cache' = [cache EXCEPT ![key] = NoEntry]
            \/ \E w \in Workers :
                /\ wpc[w] = "store" /\ wk[w].resp.StatusCode = 200 /\ wk[w].gw = 1
                /\ cache' = [cache EXCEPT ![KeyOf(wk[w].req)] = wk[w].resp]]_vars
    /\ [][\A w \in Workers :
            (wpc[w] = "fetch" /\ wpc'[w] # "fetch" /\ wk'[w].resp.StatusCode # 200) =>
                cache' = cache /\ wpc'[w] \in {"remove", "idle"}]_vars

\* one worker stored a 200, the other got another status for the same page
\* and stored nothing
C13_Witness ==
    \E v, w \in Workers :
        /\ wpc[v] = "idle" /\ wk[v].resp.StatusCode = 200 /\ wk[v].sets = 1 /\ ~wk[v].setErr
        /\ cache[KeyOf(wk[v].req)] = wk[v].resp
        /\ wpc[w] = "idle" /\ wk[w].req # NoReq /\ wk[w].gw = 1
        /\ wk[w].resp.StatusCode = 404 /\ wk[w].sets = 0

\* C14: a worker whose re-check finds the reservation's key in the cache makes
\* no Gateway call and no SetResponseWithURL call, leaves the cache as it is,
\* calls RemoveReservedRequest once and returns nil.
C14_FoundSkips ==
    /\ [](\A w \in Workers : wk[w].found =>
            /\ wk[w].gw = 0 /\ wk[w].sets = 0 /\ wk[w].resp = NoEntry
            /\ wpc[w] \in {"remove", "idle"}
            /\ wpc[w] = "idle" => (wk[w].removes = 1 /\ wk[w].ret = "nil"))
    /\ [][\A w \in Workers :
            (wpc[w] = "check" /\ wpc'[w] # "check" /\ Found(KeyOf(wk[w].req))) =>
                \/ wk'[w].found /\ wpc'[w] = "remove" /\ cache' = cache
                \/ wk'[w].ret = "check_error"]_vars
    /\ [][\A w \in Workers : (wk[w].found /\ wpc'[w] # wpc[w]) => cache' = cache]_vars

\* two reservations for the page: one worker fetched and stored it, the other
\* found it at its re-check and dropped its reservation
C14_Witness ==
    \E v, w \in Workers :
        /\ wk[v].req = ReqPage /\ wk[v].sets = 1 /\ ~wk[v].setErr
        /\ wk[w].req = ReqPage /\ wk[w].found /\ wpc[w] = "idle"
        /\ wk[w].gw = 0 /\ wk[w].removes = 1 /\ wk[w].ret = "nil"
        /\ Found(KeyOf(ReqPage))

\* a GET whose only header is Cookie: session=<v>
SessionPrefix == <<"s", "e", "s", "s", "i", "o", "n", "=">>
CarriesSession(r) ==
    /\ r.Method = "GET"
    /\ DOMAIN r.Headers = {"Cookie"}
    /\ Len(r.Headers["Cookie"]) = 1
    /\ Len(r.Headers["Cookie"][1]) > Len(SessionPrefix)
    /\ SubSeq(r.Headers["Cookie"][1], 1, Len(SessionPrefix)) = SessionPrefix

\* C20: a GET carrying Cookie: session=<v> is user specific and its call never
\* looks into the cache nor returns a cached response (it is answered by the
\* Gateway); the keys GenerateCacheKey gives two such GETs for the same URL
\* with different cookie values differ, and the keys of two equal requests
\* are equal.
C20_SessionKeyed ==
    /\ \A k \in Clients : (cpc[k] # "init" /\ CarriesSession(svc[k].req)) =>
        /\ IsUserSpecific(svc[k].req)
        /\ svc[k].path = "bypass" /\ svc[k].lookups = 0
        /\ svc[k].result.kind \in {"none", "gw_error", "gw_response"}
    /\ \A j, k \in Clients :
        (cpc[j] # "init" /\ cpc[k] # "init" /\ CarriesSession(svc[j].req)
            /\ CarriesSession(svc[k].req) /\ svc[j].req.URL = svc[k].req.URL) =>
            (GenerateCacheKey(svc[j].req) = GenerateCacheKey(svc[k].req)
                <=> svc[j].req.Headers["Cookie"] = svc[k].req.Headers["Cookie"])

\* session=x and session=y for the same URL were both answered by the Gateway
C20_Witness ==
    \E j, k \in Clients :
        /\ cpc[j] = "done" /\ svc[j].req = ReqSessionX /\ svc[j].result.kind = "gw_response"
        /\ cpc[k] = "done" /\ svc[k].req = ReqSessionY /\ svc[k].result.kind = "gw_response"
        /\ GenerateCacheKey(ReqSessionX) # GenerateCacheKey(ReqSessionY)

(***************************************************************************)
(* Further properties of the service and the worker (under SpecCache).     *)
(***************************************************************************)
\* the response the miss path returns for request r when the placeholder was
\* produced or not (ph) and the default page read or not (dp)
MissResponse(r, ph, dp) ==
    IF ph = "body"
    THEN [kind |-> "placeholder", StatusCode |-> 200, ContentType |-> InferContentType(r.URL)]
    ELSE IF dp = "ok"
    THEN [kind |-> "default_page", StatusCode |-> 200, ContentType |-> TextHtmlUtf8]
    ELSE [kind |-> "unavailable", StatusCode |-> 503, ContentType |-> TextPlainUtf8]

\* C24: a call whose GetResponse failed makes one Gateway call, no
\* ReserveRequest call, and returns what the Gateway call returned; a call
\* whose ReserveRequest failed makes no Gateway call and returns the very
\* response a call with a successful reservation returns for the same
\* request and the same local files; only successful reservations are queued.
C24_StoreErrorsDegrade ==
    /\ \A k \in Clients : svc[k].path = "lookup_error" =>
        /\ IsCacheable(svc[k].req)
        /\ svc[k].lookups = 1 /\ svc[k].gw = 1 /\ svc[k].reserves = 0
        /\ cpc[k] = "done" => svc[k].result = Forwarded(svc[k].gwOut)
    /\ \A k \in Clients : (svc[k].path = "miss_reserve_error" /\ cpc[k] = "done") =>
        /\ svc[k].gw = 0 /\ svc[k].reserves = 1
        /\ svc[k].result = MissResponse(svc[k].req, svc[k].ph, svc[k].dp)
        /\ \A j \in Clients :
            (/\ svc[j].path = "miss" /\ cpc[j] = "done" /\ svc[j].req = svc[k].req
             /\ svc[j].ph = svc[k].ph /\ svc[j].dp = svc[k].dp)
            => svc[j].result = svc[k].result
    /\ Len(queue) <= Cardinality({k \in Clients : svc[k].path = "miss" /\ svc[k].reserves = 1})

\* one call fell back to the Gateway after a failed lookup, another returned
\* the placeholder although its reservation failed
C24_Witness ==
    \E j, k \in Clients :
        /\ cpc[j] = "done" /\ svc[j].path = "lookup_error" /\ svc[j].req = ReqPage
        /\ svc[j].result = [kind |-> "gw_response", resp |-> [StatusCode |-> 200, Body |-> "v1"]]
        /\ cpc[k] = "done" /\ svc[k].path = "miss_reserve_error" /\ svc[k].req = ReqPage
        /\ svc[k].result.kind = "placeholder" /\ svc[k].result.StatusCode = 200
        /\ queue = <<>>

\* C28: one HandleRequest makes at most one Gateway call; when that call
\* fails or returns a status other than 200 the handler makes no
\* SetResponseWithURL call and returns nil; and the queue only grows by a
\* reservation of the service, never by a worker.
C28_SingleAttempt ==
    /\ [](\A w \in Workers :
            /\ wk[w].gw <= 1
            /\ (wk[w].resp = GwError \/ wk[w].resp.StatusCode = 404) =>
                (wk[w].gw = 1 /\ wk[w].sets = 0 /\ wpc[w] \in {"remove", "idle"})
            /\ (wpc[w] = "idle" /\ (wk[w].resp = GwError \/ wk[w].resp.StatusCode = 404)) =>
                wk[w].ret = "nil")
    /\ [][queue' # queue =>
            \/ queue # <<>> /\ queue' = Tail(queue)
            \/ \E k \in Clients : cpc[k] = "miss" /\ cpc'[k] = "done"
                                  /\ queue' = Append(queue, svc[k].req)]_vars

\* one reservation ended on a Gateway failure and one on a 404; both handlers
\* returned nil after one Gateway call and the queue is empty
C28_Witness ==
    \E v, w \in Workers :
        /\ wpc[v] = "idle" /\ wk[v].resp = GwError /\ wk[v].gw = 1 /\ wk[v].ret = "nil"
        /\ wpc[w] = "idle" /\ wk[w].resp.StatusCode = 404 /\ wk[w].gw = 1 /\ wk[w].ret = "nil"
        /\ queue = <<>>

\* C29: a miss for a request that is no image whose ReserveRequest succeeds
\* appends a reservation whatever is already queued, reserved or being
\* fetched; a worker leaves its re-check without a Gateway call exactly when
\* the lookup succeeded and found the key's entry at that moment.
C29_NoDeduplication ==
    /\ [][\A k \in Clients :
            (EndsMiss(k) /\ svc'[k].path = "miss"
                /\ InferContentType(svc[k].req.URL) # ImagePng) =>
                queue' = Append(queue, svc[k].req)]_vars
    /\ [][\A w \in Workers : (wpc[w] = "check" /\ wpc'[w] # "check") =>
            /\ wk'[w].gw = 0 <=> (Found(KeyOf(wk[w].req)) /\ wk'[w].ret # "check_error")
            /\ wk'[w].gw = 0 <=> wpc'[w] = "remove"
            /\ wk'[w].gw = 1 <=> wpc'[w] = "fetch"]_vars

\* both clients missed on the page and both reservations were fetched from the
\* Gateway, because neither re-check found an entry
C29_Witness ==
    /\ \A k \in Clients : cpc[k] = "done" /\ svc[k].path = "miss" /\ svc[k].req = ReqPage
    /\ \E v, w \in Workers : v # w /\ wk[v].req = ReqPage /\ wk[w].req = ReqPage
                             /\ wk[v].gw = 1 /\ wk[w].gw = 1
                             /\ ~wk[v].found /\ ~wk[w].found

(***************************************************************************)
(* Further properties of the correlating gateway (under SpecGW).           *)
(***************************************************************************)
\* C26: whenever the dispatcher holds a decoded response whose request ID is
\* that of a call that has handed its bundle to the transport and is still
\* waiting, a slot is registered under that ID.
C26_SlotBeforeSend ==
    \A c \in Calls :
        (pc[c] = "waiting" /\ dpc = "parse" /\ dcur.json /\ dcur.RequestID = reqID[c])
            => Load(responseChs, reqID[c]) # NoCall

\* C27: the dispatcher always has a step to take on the bundle it holds,
\* whether the payload is undecodable, no slot is registered, the slot has room
\* or the slot is filled; every such step brings it back to the receive call
\* or to the delivery attempt on the channel loaded for the bundle's ID, and a
\* delivery attempt on an empty slot leaves the bundle in that slot.
C27_NeverBlocks ==
    /\ [](dpc \in {"recv", "parse", "send"})
    /\ [](dpc = "parse" => ENABLED (DispBadJSON \/ DispLoadHit \/ DispOrphan))
    /\ [](dpc = "send" => ENABLED (DispDeliver \/ DispBlocked))
    /\ [][(dpc = "parse" /\ dpc' # "parse") =>
            \/ dpc' = "recv"
            \/ /\ dpc' = "send" /\ dcur.json
               /\ dch' = Load(responseChs, dcur.RequestID) /\ dch' # NoCall]_vars
    /\ [][(dpc = "send" /\ dpc' # "send") =>
            /\ dpc' = "recv"
            /\ respCh[dch] = <<>> => respCh'[dch] = <<dcur>>]_vars

\* the second bundle found the slot of a waiting call still filled by the
\* first; the dispatcher dropped it and is back at the receive call
C27_Witness ==
    /\ fate[1] = "delivered" /\ fate[2] = "blocked"
    /\ dpc = "recv"
    /\ \E c \in Calls : pc[c] = "waiting" /\ Len(respCh[c]) = ChanCap /\ respCh[c][1].n = 1

(***************************************************************************)
(* Part III.  The bundle transport of the remote station (package          *)
(* bpsocket): BpSocket, BpSender, BpReceiver.                              *)
(***************************************************************************)
\* const maxBundleSize = 4 * 1024 * 1024
maxBundleSize == 4 * 1024 * 1024
\* len(jsonData) of the values handed to Send
Sizes == {maxBundleSize - 1, maxBundleSize, maxBundleSize + 1}
\* mutant: the limit itself is refused
TooBigAtLimit(n) == n >= maxBundleSize
\* len(jsonData) > maxBundleSize
TooBig(n) == n > maxBundleSize

\* what sendto can return on the number s.fd: on the open socket it
\* succeeds or fails; after Close the number is stale and sendto fails with
\* EBADF, or, when the process has reused the number for another socket
\* meanwhile, succeeds or fails on that socket
SendtoOutcomes(fdstate) ==
    IF fdstate = "open" THEN {"ok", "err"} ELSE {"err"} \cup {"ok", "err"}

\* BpSender.Send for a value whose json.Marshal outcome is mo and whose
\* encoding has n bytes, on a socket whose sendto returns so: the length
\* handed on, the number of socket.Send calls made and the value returned
Send(mo, n, so) ==
    IF mo = "err" THEN [size |-> 0, sendto |-> 0, ret |-> "marshal_error"]
    ELSE IF TooBig(n) THEN [size |-> n, sendto |-> 0, ret |-> "size_exceeded"]
    ELSE IF so = "err" THEN [size |-> n, sendto |-> 1, ret |-> "socket_error"]
    ELSE [size |-> n, sendto |-> 1, ret |-> "nil"]

\* closeFd(s.fd) = syscall.Close on a descriptor in the given state.  Close
\* never resets s.fd, so a later Close passes the test s.fd >= 0 again and
\* closes the stale number: the kernel answers EBADF, or, when the process
\* has reused the number meanwhile, closes that other descriptor.
CloseFd(fdstate) ==
    IF fdstate = "open"
    THEN {[syscall |-> TRUE, ret |-> "nil", victim |-> FALSE]}
    ELSE {[syscall |-> TRUE, ret |-> "EBADF", victim |-> FALSE],
          [syscall |-> TRUE, ret |-> "nil", victim |-> TRUE]}

\* one call of BpSender.Send
SenderSend ==
    /\ Len(sendLog) < NSends
    /\ \E mo \in {"ok", "err"}, n \in Sizes, so \in SendtoOutcomes(sfd) :
        sendLog' = Append(sendLog, Send(mo, n, so))
    /\ UNCHANGED <<stationvars, gwvars, cachevars, recvvars, sfd, sCloseLog>>

\* one call of BpSender.Close = BpSocket.Close
SenderClose ==
    /\ Len(sCloseLog) < NCloses
    /\ \E out \in CloseFd(sfd) : sCloseLog' = Append(sCloseLog, out)
    /\ sfd' = "closed"
    /\ UNCHANGED <<stationvars, gwvars, cachevars, recvvars, sendLog>>

NextSend == SenderSend \/ SenderClose

SpecSend == Init /\ [][NextSend]_vars

\* C15: a Send whose encoded value has at most 4*1024*1024 bytes makes one
\* socket send call with it (and returns what that call gave); a Send whose
\* encoded value has 4*1024*1024 + 1 bytes or more returns the size-exceeded
\* error and makes no socket send call.
C15_SizeLimit ==
    \A i \in 1..Len(sendLog) : sendLog[i].ret # "marshal_error" =>
        /\ sendLog[i].size <= 4194304 =>
            (sendLog[i].sendto = 1 /\ sendLog[i].ret \in {"nil", "socket_error"})
        /\ sendLog[i].size >= 4194305 =>
            (sendLog[i].sendto = 0 /\ sendLog[i].ret = "size_exceeded")

\* one Send of exactly 4 MiB went to the socket and one of 4 MiB + 1 was refused
C15_Witness ==
    \E i, j \in 1..Len(sendLog) :
        /\ sendLog[i] = [size |-> 4194304, sendto |-> 1, ret |-> "nil"]
        /\ sendLog[j] = [size |-> 4194305, sendto |-> 0, ret |-> "size_exceeded"]

\* the number of retries the documentation promises for a failed send
SendRetries == 3

\* C18 (as claimed): a Send returns the socket's failure only after it has
\* retried the socket send, at most SendRetries times.
C18_SendRetried ==
    \A i \in 1..Len(sendLog) : sendLog[i].ret = "socket_error" =>
        (sendLog[i].sendto > 1 /\ sendLog[i].sendto <= 1 + SendRetries)

\* C19 (as claimed): every Close after the first makes no close system call
\* and returns nil, so the descriptor is closed once and nothing else is.
C19_CloseIdempotent ==
    \A i \in 2..Len(sCloseLog) :
        /\ ~sCloseLog[i].syscall
        /\ sCloseLog[i].ret = "nil"
        /\ ~sCloseLog[i].victim

(***************************************************************************)
(* BpReceiver: receiveLoop, the consumer of GetDataChannel(), Close.       *)
(***************************************************************************)
\* dataChan: make(chan []byte, 100)
DataChanCap == 100
\* the bundles the socket yields are numbered 1, 2, ... in the order of receipt
MaxRecv == DataChanCap + MaxOverflow

\* mutant: at a full channel the oldest bundle makes room for the newest
OfferDropOldest(ch, b) ==
    IF Len(ch) < DataChanCap THEN Append(ch, b) ELSE Append(Tail(ch), b)
\* select { case r.dataChan <- data: default: }: the channel after the select
Offer(ch, b) == IF Len(ch) < DataChanCap THEN Append(ch, b) ELSE ch

\* the k-th bundle on the wire: its length and its bytes
WireLen(k) == 1 + (k % BufCells)
Wire(k) == [i \in 1..WireLen(k) |-> (k + i) % 2]
\* recvfrom(fd, buf): the bundle's bytes overwrite the head of the buffer
Recvfrom(b, k) == [i \in 1..BufCells |-> IF i <= WireLen(k) THEN Wire(k)[i] ELSE b[i]]

\* mutant: data := buf[:n], a slice that shares the buffer
MakeDataShared(b, n) == [shared |-> TRUE, n |-> n, bytes |-> <<>>]
\* data := make([]byte, n); copy(data, buf[:n])
MakeData(b, n) == [shared |-> FALSE, n |-> n, bytes |-> SubSeq(b, 1, n)]
\* the bytes a reader of the slice sees now
Bytes(d) == IF d.shared THEN SubSeq(buf, 1, d.n) ELSE d.bytes

\* close(r.stopChan) on a closed channel has panicked: the process is gone
Crashed == \E i \in 1..Len(rCloseLog) : rCloseLog[i].panic

\* top of the loop, stopChan closed: close(r.dataChan) and return
LoopStop ==
    /\ ~Crashed
    /\ rpc = "top"
    /\ stopChan = "closed"
    /\ dataClosed' = TRUE
    /\ rpc' = "stopped"
    /\ UNCHANGED <<stationvars, gwvars, cachevars, sendvars, buf, held, rfd, stopChan, dataChan, recvd, rcur,
                   errRun, dropped, rcl, rCloseLog>>

\* top of the loop, default case: go on to r.socket.Recv(buf)
LoopGo ==
    /\ ~Crashed
    /\ rpc = "top"
    /\ stopChan = "open"
    /\ rpc' = "recv"
    /\ UNCHANGED <<stationvars, gwvars, cachevars, sendvars, buf, held, rfd, stopChan, dataChan, dataClosed, recvd,
                   rcur, errRun, dropped, rcl, rCloseLog>>

\* Recv returns a bundle; it is copied into data.  Recv is a plain blocking
\* recvfrom: a Close made meanwhile does not end it, and on a stale number
\* that the process has reused it reads from that other socket
LoopRecvOk ==
    /\ ~Crashed
    /\ rpc = "recv"
    /\ recvd < MaxRecv
    /\ recvd' = recvd + 1
    /\ rcur' = recvd + 1
    /\ errRun' = 0
    /\ rpc' = "push"
    /\ buf' = Recvfrom(buf, recvd + 1)
    /\ held' = Append(held, MakeData(Recvfrom(buf, recvd + 1), WireLen(recvd + 1)))
    /\ UNCHANGED <<stationvars, gwvars, cachevars, sendvars, rfd, stopChan, dataChan, dataClosed,
                   dropped, rcl, rCloseLog>>

\* Recv returns an error
LoopRecvErr ==
    /\ ~Crashed
    /\ rpc = "recv"
    /\ errRun < MaxErrRun
    /\ errRun' = errRun + 1
    /\ rpc' = "failed"
    /\ UNCHANGED <<stationvars, gwvars, cachevars, sendvars, buf, held, rfd, stopChan, dataChan, dataClosed, recvd,
                   rcur, dropped, rcl, rCloseLog>>

\* after the error, stopChan closed: return (dataChan is left open)
LoopErrStop ==
    /\ ~Crashed
    /\ rpc = "failed"
    /\ stopChan = "closed"
    /\ rpc' = "stopped"
    /\ UNCHANGED <<stationvars, gwvars, cachevars, sendvars, buf, held, rfd, stopChan, dataChan, dataClosed, recvd,
                   rcur, errRun, dropped, rcl, rCloseLog>>

\* after the error, default case: log and continue
LoopErrContinue ==
    /\ ~Crashed
    /\ rpc = "failed"
    /\ stopChan = "open"
    /\ rpc' = "top"
    /\ UNCHANGED <<stationvars, gwvars, cachevars, sendvars, buf, held, rfd, stopChan, dataChan, dataClosed, recvd,
                   rcur, errRun, dropped, rcl, rCloseLog>>

\* the non-blocking send of data to dataChan, then the next iteration
LoopPush ==
    /\ ~Crashed
    /\ rpc = "push"
    /\ dataChan' = Offer(dataChan, rcur)
    /\ dropped' = IF Len(dataChan) < DataChanCap THEN dropped ELSE dropped \cup {rcur}
    /\ rcur' = 0
    /\ rpc' = "top"
    /\ UNCHANGED <<stationvars, gwvars, cachevars, sendvars, buf, held, rfd, stopChan, dataClosed, recvd, errRun,
                   rcl, rCloseLog>>

\* the consumer (for data := range dataChan) takes the oldest bundle
ConsumerTake ==
    /\ ~Crashed
    /\ dataChan # <<>>
    /\ dataChan' = Tail(dataChan)
    /\ UNCHANGED <<stationvars, gwvars, cachevars, sendvars, buf, held, rpc, rfd, stopChan, dataClosed, recvd, rcur,
                   errRun, dropped, rcl, rCloseLog>>

\* BpReceiver.Close, first statement: close(r.stopChan)
RecvCloseStop ==
    /\ ~Crashed
    /\ rcl = "idle"
    /\ Len(rCloseLog) < NCloses
    /\ stopChan = "open"
    /\ stopChan' = "closed"
    /\ rcl' = "socket"
    /\ UNCHANGED <<stationvars, gwvars, cachevars, sendvars, buf, held, rpc, rfd, dataChan, dataClosed, recvd, rcur,
                   errRun, dropped, rCloseLog>>

\* BpReceiver.Close, first statement on a closed stopChan: panic
RecvClosePanic ==
    /\ ~Crashed
    /\ rcl = "idle"
    /\ Len(rCloseLog) < NCloses
    /\ stopChan = "closed"
    /\ rCloseLog' = Append(rCloseLog, [panic |-> TRUE, syscall |-> FALSE, ret |-> "none",
                                       victim |-> FALSE])
    /\ UNCHANGED <<stationvars, gwvars, cachevars, sendvars, buf, held, rpc, rfd, stopChan, dataChan, dataClosed,
                   recvd, rcur, errRun, dropped, rcl>>

\* BpReceiver.Close, second statement: return r.socket.Close()
RecvCloseSocket ==
    /\ ~Crashed
    /\ rcl = "socket"
    /\ \E out \in CloseFd(rfd) :
        rCloseLog' = Append(rCloseLog, [panic |-> FALSE, syscall |-> out.syscall,
                                        ret |-> out.ret, victim |-> out.victim])
    /\ rfd' = "closed"
    /\ rcl' = "idle"
    /\ UNCHANGED <<stationvars, gwvars, cachevars, sendvars, buf, held, rpc, stopChan, dataChan, dataClosed, recvd,
                   rcur, errRun, dropped>>

NextRecv ==
    \/ LoopStop
    \/ LoopGo
    \/ LoopRecvOk
    \/ LoopRecvErr
    \/ LoopErrStop
    \/ LoopErrContinue
    \/ LoopPush
    \/ ConsumerTake
    \/ RecvCloseStop
    \/ RecvClosePanic
    \/ RecvCloseSocket

SpecRecv == Init /\ [][NextRecv]_vars

\* C16: dataChan never holds more than 100 bundles; the loop's send to dataChan
\* never blocks; when dataChan is full at that send, the bundle just received
\* is dropped, dataChan keeps its content and order, and the loop is at the
\* top of its next iteration.
C16_BoundedDropNewest ==
    /\ [](Len(dataChan) <= 100)
    /\ []((rpc = "push" /\ ~Crashed) => ENABLED LoopPush)
    /\ [][(rpc = "push" /\ rpc' # "push" /\ Len(dataChan) = 100) =>
            /\ dataChan' = dataChan
            /\ dropped' = dropped \cup {rcur}
            /\ rpc' = "top"]_vars
    /\ [][(rpc = "push" /\ rpc' # "push" /\ Len(dataChan) < 100) =>
            /\ dataChan' = Append(dataChan, rcur)
            /\ dropped' = dropped]_vars

\* bundles 1..100 are queued, bundle 101 was dropped and the loop is receiving again
C16_Witness ==
    /\ Len(dataChan) = 100 /\ Head(dataChan) = 1 /\ dataChan[100] = 100
    /\ dropped = {101}
    /\ rpc = "recv"

\* the number of errors in a row after which the documentation promises a reconnect
ReconnectAfter == 3

\* C17 (as claimed): the loop never sees more than ReconnectAfter receive
\* errors in a row on one socket, because after that many it recreates the
\* socket (and counts anew) or stops.
C17_ReconnectsAfterThree ==
    errRun <= ReconnectAfter \/ rpc = "stopped"


\* C31: every bundle that was pushed onto dataChan, whether still queued or
\* already taken by the consumer, reads as exactly the bytes received for it:
\* its length is the number of bytes read and its content is that of the wire,
\* whatever has been received into buf since.
C31_OwnedCopy ==
    \A k \in 1..Len(held) :
        (k # rcur /\ k \notin dropped) =>
            /\ Len(Bytes(held[k])) = WireLen(k)
            /\ Bytes(held[k]) = Wire(k)

\* the first bundle was taken by the consumer, the second is still queued, and
\* a later receive has overwritten the bytes of the second in buf
C31_Witness ==
    /\ recvd >= 3
    /\ dataChan # <<>> /\ Head(dataChan) = 2
    /\ SubSeq(buf, 1, WireLen(2)) # Wire(2)
    /\ Bytes(held[2]) = Wire(2)

\* C33 (as claimed): when the receive loop has returned, dataChan is closed.
C33_StopClosesDataChan ==
    rpc = "stopped" => dataClosed

(***************************************************************************)
(* Addresses (SpecAddr): NewSockaddrBP as NewBpSocket and BpSocket.Send    *)
(* call it, and SockaddrBP.String.                                         *)
(***************************************************************************)
AddrCall ==
    /\ Len(addrs) < NAddrCalls
    /\ \E nodeNum \in NodeNums, svcNum \in SvcNums :
        addrs' = Append(addrs, [nodeNum |-> nodeNum, svcNum |-> svcNum,
                                sa |-> NewSockaddrBP(nodeNum, svcNum)])
    /\ UNCHANGED <<gwvars, cachevars, sockvars, pipevars, clivars, certvars, keyvars, flowvars>>

NextAddr == AddrCall
SpecAddr == Init /\ [][NextAddr]_vars

\* C32 (as claimed): the text of every address built is ipn:<node>.<service>
\* with exactly the numbers given to NewSockaddrBP, and two calls given
\* different (node, service) pairs never have the same text.
C32_AddressExact ==
    /\ \A i \in 1..Len(addrs) :
        String(addrs[i].sa) = IpnText(addrs[i].nodeNum, addrs[i].svcNum)
    /\ \A i, j \in 1..Len(addrs) :
        (<<addrs[i].nodeNum, addrs[i].svcNum>> # <<addrs[j].nodeNum, addrs[j].svcNum>>) =>
            String(addrs[i].sa) # String(addrs[j].sa)

(***************************************************************************)
(* Cache keys of requests with credentials (SpecKey): BpService and the    *)
(* worker look up and store responses under GenerateCacheKey of the        *)
(* request.                                                                *)
(***************************************************************************)
KeyCall ==
    /\ Len(keyLog) < NKeyCalls
    /\ \E r \in CredRequests :
        keyLog' = Append(keyLog, [req |-> r, cacheable |-> IsCacheable(r),
                                  key |-> GenerateCacheKey(r)])
    /\ UNCHANGED <<gwvars, cachevars, sockvars, pipevars, clivars, addrvars, certvars, flowvars>>

NextKey == KeyCall
SpecKey == Init /\ [][NextKey]_vars

\* C36 (as claimed): two cacheable GETs for the same URL, one carrying an
\* Authorization value and the other a different value or none, have
\* different cache keys, so that the response stored for the one is never
\* found by the lookup of the other.
C36_CredentialIsolation ==
    \A i, j \in 1..Len(keyLog) :
        (/\ keyLog[i].cacheable /\ keyLog[j].cacheable
         /\ keyLog[i].req.Method = "GET" /\ keyLog[j].req.Method = "GET"
         /\ keyLog[i].req.URL = keyLog[j].req.URL
         /\ HasHeader(keyLog[i].req, "Authorization")
         /\ AuthOf(keyLog[i].req) # AuthOf(keyLog[j].req)) =>
            keyLog[i].key # keyLog[j].key

(***************************************************************************)
(* The certificate cache of SSLBumpHandler (SpecCert).  The sections       *)
(* between RLock and RUnlock and between Lock and the deferred Unlock      *)
(* exclude each other, so each is one step.                                *)
(***************************************************************************)
\* NewSSLBumpHandler(crtPath, keyPath, maxCacheSize)
NewSSLBumpHandler ==
    /\ ~constructed
    /\ \E m \in 0..MaxCertCache : maxCacheSize' = m
    /\ constructed' = TRUE
    /\ UNCHANGED <<gwvars, cachevars, sockvars, pipevars, clivars, addrvars, keyvars, flowvars,
                   certCache, certCacheKeys, gpc, ghost, certCalls, inserted, certPanic>>

\* generateCert: the lookup under RLock finds the host name and returns its certificate
CertHit(t) ==
    /\ constructed /\ gpc[t] = "idle" /\ certCalls < MaxCertCalls
    /\ \E hostname \in HostNames :
        /\ HostKey(hostname) \in DOMAIN certCache
        /\ ghost' = [ghost EXCEPT ![t] = HostKey(hostname)]
    /\ certCalls' = certCalls + 1
    /\ UNCHANGED <<gwvars, cachevars, sockvars, pipevars, clivars, addrvars, keyvars, flowvars,
                   constructed, maxCacheSize, certCache, certCacheKeys, gpc, inserted,
                   certPanic>>

\* generateCert: the lookup under RLock misses; the certificate is built next
CertMiss(t) ==
    /\ constructed /\ gpc[t] = "idle" /\ certCalls < MaxCertCalls
    /\ \E hostname \in HostNames :
        /\ HostKey(hostname) \notin DOMAIN certCache
        /\ ghost' = [ghost EXCEPT ![t] = HostKey(hostname)]
    /\ certCalls' = certCalls + 1
    /\ gpc' = [gpc EXCEPT ![t] = "built"]
    /\ UNCHANGED <<gwvars, cachevars, sockvars, pipevars, clivars, addrvars, keyvars, flowvars,
                   constructed, maxCacheSize, certCache, certCacheKeys, inserted, certPanic>>

\* rand.Int, x509.CreateCertificate or tls.X509KeyPair fails: return nil, err
CertBuildError(t) ==
    /\ gpc[t] = "built"
    /\ gpc' = [gpc EXCEPT ![t] = "idle"]
    /\ UNCHANGED <<gwvars, cachevars, sockvars, pipevars, clivars, addrvars, keyvars, flowvars,
                   constructed, maxCacheSize, certCache, certCacheKeys, ghost, certCalls,
                   inserted, certPanic>>

\* generateCert from cacheMu.Lock() to the deferred Unlock: the second lookup,
\* the eviction of certCacheKeys[0] when len(certCacheKeys) >= maxCacheSize,
\* the insertion.  certCacheKeys[0] on an empty slice panics.
CertStore(t) ==
    /\ gpc[t] = "built"
    /\ gpc' = [gpc EXCEPT ![t] = "idle"]
    /\ IF ghost[t] \in DOMAIN certCache
       THEN UNCHANGED <<certCache, certCacheKeys, inserted, certPanic>>
       ELSE IF Len(certCacheKeys) >= maxCacheSize /\ certCacheKeys = <<>>
       THEN certPanic' = TRUE /\ UNCHANGED <<certCache, certCacheKeys, inserted>>
       ELSE LET full == Len(certCacheKeys) >= maxCacheSize
                keys == IF full THEN Tail(certCacheKeys) ELSE certCacheKeys
                kept == IF full THEN MapDelete(certCache, Head(certCacheKeys)) ELSE certCache
            IN /\ certCache' = kept @@ (ghost[t] :> certCalls)
               /\ certCacheKeys' = Append(keys, ghost[t])
               /\ inserted' = Append(inserted, ghost[t])
               /\ UNCHANGED certPanic
    /\ UNCHANGED <<gwvars, cachevars, sockvars, pipevars, clivars, addrvars, keyvars, flowvars,
                   constructed, maxCacheSize, ghost, certCalls>>

NextCert ==
    \/ NewSSLBumpHandler
    \/ \E t \in CertTasks : CertHit(t)
    \/ \E t \in CertTasks : CertMiss(t)
    \/ \E t \in CertTasks : CertBuildError(t)
    \/ \E t \in CertTasks : CertStore(t)
SpecCert == Init /\ [][NextCert]_vars

\* the last n elements of a sequence
LastN(seq, n) == SubSeq(seq, Len(seq) - n + 1, Len(seq))
Min(a, b) == IF a < b THEN a ELSE b

\* C37 (as claimed): for every maxCacheSize >= 0 no generateCert call panics,
\* the cache holds at most maxCacheSize entries, certCacheKeys lists exactly
\* the host names in certCache, each once, and they are the most recently
\* stored names in the order they were stored (the oldest is the one evicted).
C37_CertCacheBounded ==
    /\ ~certPanic
    /\ Len(certCacheKeys) <= maxCacheSize
    /\ {certCacheKeys[i] : i \in 1..Len(certCacheKeys)} = DOMAIN certCache
    /\ \A i, j \in 1..Len(certCacheKeys) : i # j => certCacheKeys[i] # certCacheKeys[j]
    /\ certCacheKeys = LastN(inserted, Min(Len(inserted), maxCacheSize))

(***************************************************************************)
(* Part IV.  The pipeline of the remote station: receive stage, fetch      *)
(* workers, save-and-recurse worker, send workers.  An unrecovered panic   *)
(* in any goroutine ends the process.                                      *)
(***************************************************************************)
\* recvStageBpSocket: one bundle from dataChan becomes one CrawlRequest
RecvStage ==
    /\ ~panicked
    /\ Len(taken) < MaxPipeBundles
    /\ Len(urlChan) < PipeChanCap
    /\ \E data \in PipeBundles(Len(taken) + 1) :
        LET p == ParseDTNRequest(data) IN
        /\ taken' = Append(taken, data)
        /\ urlChan' = Append(urlChan,
                [RequestID |-> p.reqID,
                 URL |-> IF p.err # "nil" THEN ErrorURL(p.err) ELSE p.url,
                 Depth |-> 0])
    /\ UNCHANGED <<gwvars, cachevars, sockvars, clivars, auxvars, bpResChan, sendChan, visitedURLs,
                   visitedMutex, fpc, fcur, spc, scur, slinks, executed, handed, panicked>>

\* fetchWorkerBpSocket: a CrawlRequest with an error URL is taken; next is
\* bpResChan <- errRes
FetchErrorURL(w) ==
    /\ ~panicked
    /\ fpc[w] = "idle"
    /\ urlChan # <<>>
    /\ HasErrorPrefix(Head(urlChan).URL)
    /\ urlChan' = Tail(urlChan)
    /\ fcur' = [fcur EXCEPT ![w] = Head(urlChan)]
    /\ fpc' = [fpc EXCEPT ![w] = "errsend"]
    /\ UNCHANGED <<gwvars, cachevars, sockvars, clivars, auxvars, taken, bpResChan, sendChan,
                   visitedURLs, visitedMutex, spc, scur, slinks, executed, handed, panicked>>

\* bpResChan <- errRes: the 400 response is sent when bpResChan has room
FetchErrorSend(w) ==
    /\ ~panicked
    /\ fpc[w] = "errsend"
    /\ Len(bpResChan) < PipeChanCap
    /\ bpResChan' = Append(bpResChan, ErrRes(fcur[w].RequestID))
    /\ fpc' = [fpc EXCEPT ![w] = "idle"]
    /\ fcur' = [fcur EXCEPT ![w] = NoCrawl]
    /\ UNCHANGED <<gwvars, cachevars, sockvars, clivars, auxvars, taken, urlChan, sendChan,
                   visitedURLs, visitedMutex, spc, scur, slinks, executed, handed, panicked>>

\* fetchWorkerBpSocket: a CrawlRequest is taken; next is visitedMutex.Lock()
FetchTake(w) ==
    /\ ~panicked
    /\ fpc[w] = "idle"
    /\ urlChan # <<>>
    /\ ~HasErrorPrefix(Head(urlChan).URL)
    /\ urlChan' = Tail(urlChan)
    /\ fcur' = [fcur EXCEPT ![w] = Head(urlChan)]
    /\ fpc' = [fpc EXCEPT ![w] = "lock"]
    /\ UNCHANGED <<gwvars, cachevars, sockvars, clivars, auxvars, taken, bpResChan, sendChan, visitedURLs,
                   visitedMutex, spc, scur, slinks, executed, handed, panicked>>

\* visitedMutex.Lock() returns
FetchLock(w) ==
    /\ ~panicked
    /\ fpc[w] = "lock"
    /\ visitedMutex = Unlocked
    /\ visitedMutex' = w
    /\ fpc' = [fpc EXCEPT ![w] = "locked"]
    /\ UNCHANGED <<gwvars, cachevars, sockvars, clivars, auxvars, taken, urlChan, bpResChan, sendChan,
                   visitedURLs, fcur, spc, scur, slinks, executed, handed, panicked>>

\* the URL was visited before: Unlock and continue, no response
FetchVisited(w) ==
    /\ ~panicked
    /\ fpc[w] = "locked"
    /\ fcur[w].URL \in visitedURLs
    /\ visitedMutex' = Unlocked
    /\ fpc' = [fpc EXCEPT ![w] = "idle"]
    /\ fcur' = [fcur EXCEPT ![w] = NoCrawl]
    /\ UNCHANGED <<gwvars, cachevars, sockvars, clivars, auxvars, taken, urlChan, bpResChan, sendChan,
                   visitedURLs, spc, scur, slinks, executed, handed, panicked>>

\* the URL is new: mark it, Unlock, go on to the HTTP request
FetchMark(w) ==
    /\ ~panicked
    /\ fpc[w] = "locked"
    /\ fcur[w].URL \notin visitedURLs
    /\ visitedURLs' = visitedURLs \cup {fcur[w].URL}
    /\ visitedMutex' = Unlocked
    /\ fpc' = [fpc EXCEPT ![w] = "fetch"]
    /\ UNCHANGED <<gwvars, cachevars, sockvars, clivars, auxvars, taken, urlChan, bpResChan, sendChan,
                   fcur, spc, scur, slinks, executed, handed, panicked>>


\* client.Do and io.ReadAll succeed: the response is built; next is
\* bpResChan <- bpRes
FetchOk(w) ==
    /\ ~panicked
    /\ fpc[w] = "fetch"
    /\ executed' = executed \cup {Issued(fcur[w])}
    /\ fpc' = [fpc EXCEPT ![w] = "send"]
    /\ UNCHANGED <<gwvars, cachevars, sockvars, clivars, auxvars, taken, urlChan, bpResChan,
                   sendChan, visitedURLs, visitedMutex, fcur, spc, scur, slinks, handed, panicked>>

\* bpResChan <- bpRes: the response is sent when bpResChan has room
FetchSend(w) ==
    /\ ~panicked
    /\ fpc[w] = "send"
    /\ Len(bpResChan) < PipeChanCap
    /\ bpResChan' = Append(bpResChan, FetchedRes(fcur[w]))
    /\ fpc' = [fpc EXCEPT ![w] = "idle"]
    /\ fcur' = [fcur EXCEPT ![w] = NoCrawl]
    /\ UNCHANGED <<gwvars, cachevars, sockvars, clivars, auxvars, taken, urlChan, sendChan,
                   visitedURLs, visitedMutex, spc, scur, slinks, executed, handed, panicked>>

\* client.Do or io.ReadAll fails: log and continue, no response
FetchFail(w) ==
    /\ ~panicked
    /\ fpc[w] = "fetch"
    /\ executed' = executed \cup {Issued(fcur[w])}
    /\ fpc' = [fpc EXCEPT ![w] = "idle"]
    /\ fcur' = [fcur EXCEPT ![w] = NoCrawl]
    /\ UNCHANGED <<gwvars, cachevars, sockvars, clivars, auxvars, taken, urlChan, bpResChan, sendChan,
                   visitedURLs, visitedMutex, spc, scur, slinks, handed, panicked>>

\* saveAndRecurseWorkerBpSocket: bpRes.Headers["X-Original-URL"][0] on a
\* response without that header indexes an empty slice and panics
SavePanic ==
    /\ ~panicked
    /\ spc = "idle"
    /\ bpResChan # <<>>
    /\ ~Head(bpResChan).hasOriginal
    /\ bpResChan' = Tail(bpResChan)
    /\ panicked' = TRUE
    /\ UNCHANGED <<gwvars, cachevars, sockvars, clivars, auxvars, taken, urlChan, sendChan, visitedURLs,
                   visitedMutex, fpc, fcur, spc, scur, slinks, executed, handed>>

\* saveAndRecurseWorkerBpSocket: the next response is taken from bpResChan;
\* next is sendChan <- bpRes
SaveTake ==
    /\ ~panicked
    /\ spc = "idle"
    /\ bpResChan # <<>>
    /\ Head(bpResChan).hasOriginal
    /\ bpResChan' = Tail(bpResChan)
    /\ scur' = Head(bpResChan)
    /\ spc' = "send"
    /\ UNCHANGED <<gwvars, cachevars, sockvars, clivars, auxvars, taken, urlChan, sendChan,
                   visitedURLs, visitedMutex, fpc, fcur, slinks, executed, handed, panicked>>

\* sendChan <- bpRes when sendChan has room; unless the status is 400 or
\* the depth is maxDepth the links are extracted
SaveSend ==
    /\ ~panicked
    /\ spc = "send"
    /\ Len(sendChan) < PipeChanCap
    /\ LET bpRes == scur
           links == IF bpRes.StatusCode # 400 /\ bpRes.Depth < maxDepth
                    THEN extractLinksBpSocket(bpRes, bpRes.original) ELSE <<>>
       IN /\ sendChan' = Append(sendChan, bpRes)
          /\ slinks' = links
          /\ scur' = IF links = <<>> THEN NoRes ELSE bpRes
          /\ spc' = IF links = <<>> THEN "idle" ELSE "lock"
    /\ UNCHANGED <<gwvars, cachevars, sockvars, clivars, auxvars, taken, urlChan, bpResChan,
                   visitedURLs, visitedMutex, fpc, fcur, executed, handed, panicked>>

\* visitedMutex.Lock() returns for the next link
SaveLock ==
    /\ ~panicked
    /\ spc = "lock"
    /\ visitedMutex = Unlocked
    /\ visitedMutex' = SaveTask
    /\ spc' = "locked"
    /\ UNCHANGED <<gwvars, cachevars, sockvars, clivars, auxvars, taken, urlChan, bpResChan, sendChan,
                   visitedURLs, fpc, fcur, scur, slinks, executed, handed, panicked>>

\* mutant: the lock is kept over the send to urlChan
SaveCheckKeepsLock ==
    /\ ~panicked
    /\ spc = "locked"
    /\ visitedMutex' = IF Head(slinks) \notin visitedURLs THEN SaveTask ELSE Unlocked
    /\ IF Head(slinks) \notin visitedURLs
       THEN spc' = "pushurl" /\ UNCHANGED <<slinks, scur>>
       ELSE /\ slinks' = Tail(slinks)
            /\ spc' = IF Tail(slinks) = <<>> THEN "idle" ELSE "lock"
            /\ scur' = IF Tail(slinks) = <<>> THEN NoRes ELSE scur
    /\ UNCHANGED <<gwvars, cachevars, sockvars, clivars, auxvars, taken, urlChan, bpResChan, sendChan,
                   visitedURLs, fpc, fcur, executed, handed, panicked>>

\* if !visitedURLs[link] { Unlock(); send follows } else { Unlock() }
SaveCheck ==
    /\ ~panicked
    /\ spc = "locked"
    /\ visitedMutex' = Unlocked
    /\ IF Head(slinks) \notin visitedURLs
       THEN spc' = "pushurl" /\ UNCHANGED <<slinks, scur>>
       ELSE /\ slinks' = Tail(slinks)
            /\ spc' = IF Tail(slinks) = <<>> THEN "idle" ELSE "lock"
            /\ scur' = IF Tail(slinks) = <<>> THEN NoRes ELSE scur
    /\ UNCHANGED <<gwvars, cachevars, sockvars, clivars, auxvars, taken, urlChan, bpResChan, sendChan,
                   visitedURLs, fpc, fcur, executed, handed, panicked>>

\* urlChan <- CrawlRequest{RequestID: bpRes.RequestID, URL: link, Depth: currentDepth + 1}
SavePushURL ==
    /\ ~panicked
    /\ spc = "pushurl"
    /\ Len(urlChan) < PipeChanCap
    /\ urlChan' = Append(urlChan, [RequestID |-> scur.RequestID, URL |-> Head(slinks),
                                   Depth |-> scur.Depth + 1])
    /\ slinks' = Tail(slinks)
    /\ spc' = IF Tail(slinks) = <<>> THEN "idle" ELSE "lock"
    /\ scur' = IF Tail(slinks) = <<>> THEN NoRes ELSE scur
    /\ UNCHANGED <<gwvars, cachevars, sockvars, clivars, auxvars, taken, bpResChan, sendChan, visitedURLs,
                   visitedMutex, fpc, fcur, executed, handed, panicked>>

\* sendWorkerBpSocket: the response is given to sender.Send; its outcome is
\* only logged
SendWorker ==
    /\ ~panicked
    /\ sendChan # <<>>
    /\ sendChan' = Tail(sendChan)
    /\ handed' = [handed EXCEPT ![Head(sendChan).RequestID] = @ + 1]
    /\ UNCHANGED <<gwvars, cachevars, sockvars, clivars, auxvars, taken, urlChan, bpResChan, visitedURLs,
                   visitedMutex, fpc, fcur, spc, scur, slinks, executed, panicked>>

NextPipe ==
    \/ RecvStage
    \/ \E w \in Fetchers : FetchErrorURL(w)
    \/ \E w \in Fetchers : FetchErrorSend(w)
    \/ \E w \in Fetchers : FetchTake(w)
    \/ \E w \in Fetchers : FetchLock(w)
    \/ \E w \in Fetchers : FetchVisited(w)
    \/ \E w \in Fetchers : FetchMark(w)
    \/ \E w \in Fetchers : FetchOk(w)
    \/ \E w \in Fetchers : FetchSend(w)
    \/ \E w \in Fetchers : FetchFail(w)
    \/ SavePanic
    \/ SaveTake
    \/ SaveSend
    \/ SaveLock
    \/ SaveCheck
    \/ SavePushURL
    \/ SendWorker

SpecPipe == Init /\ [][NextPipe]_vars


(***************************************************************************)
(* Properties of the pipeline (under SpecPipe).                            *)
(***************************************************************************)
\* nothing is in flight: the channels are empty and every worker is idle
PipeQuiet ==
    /\ urlChan = <<>> /\ bpResChan = <<>> /\ sendChan = <<>>
    /\ \A w \in Fetchers : fpc[w] = "idle"
    /\ spc = "idle"

\* C21 (as claimed): every HTTP request the remote station issues for a
\* received bundle has the method, URL, headers and body bytes of the request
\* model the bundle's envelope was built from.
C21_RoundTrip ==
    \A e \in executed : e.Depth = 0 =>
        \E r \in PipeRequests :
            /\ taken[e.RequestID] = Envelope(e.RequestID, r)
            /\ e.req = r

\* C22 (as claimed): once nothing is in flight any more, every bundle taken
\* with a decodable payload and a non-empty URL has had exactly one response
\* with its request_id given to the sender.
C22_OneResponseEach ==
    (PipeQuiet /\ ~panicked) =>
        \A n \in 1..Len(taken) :
            ParseDTNRequest(taken[n]).err = "nil" => handed[taken[n].request_id] = 1

\* C23 (as claimed): after a bundle with an undecodable payload or an empty
\* URL was taken, no stage of the pipeline has crashed.
C23_DecodeErrorNotFatal ==
    (\E n \in 1..Len(taken) : ParseDTNRequest(taken[n]).err # "nil") => ~panicked


(***************************************************************************)
(* The gateway and the remote station are separate processes on separate   *)
(* nodes and share no variable.  SpecLocks follows either of them from the *)
(* initial state, for properties that speak of both.                       *)
(***************************************************************************)
NextLocks ==
    \/ InitPipe /\ NextGW
    \/ InitGW /\ NextPipe

SpecLocks == Init /\ [][NextLocks]_vars

\* C30: while a ProxyRequest call waits for its response, every other task's
\* registry operation (Store of a starting call, Delete of a returning call,
\* Load of the dispatcher) can be taken; visitedMutex is held only between
\* Lock and the Unlock that follows the look-up, never by a task that is at an
\* HTTP fetch or a channel send; the step that releases it touches no channel
\* and issues no request; and the holder can always release it.
C30_NoLockWhileSuspended ==
    /\ [](\A c \in Calls : pc[c] = "waiting" =>
            /\ \A b \in Calls \ {c} :
                /\ (pc[b] = "init" /\ \A a \in Calls : a < b => pc[a] # "init")
                        => ENABLED Register(b)
                /\ pc[b] = "exit" => ENABLED Exit(b)
            /\ dpc = "parse" => ENABLED (DispBadJSON \/ DispLoadHit \/ DispOrphan))
    /\ [](\A w \in Fetchers : visitedMutex = w => fpc[w] = "locked")
    /\ [](visitedMutex = SaveTask => spc = "locked")
    /\ [](\A w \in Fetchers : fpc[w] = "locked" => visitedMutex = w)
    /\ [](spc = "locked" => visitedMutex = SaveTask)
    /\ [][(visitedMutex # Unlocked /\ visitedMutex' # visitedMutex) =>
            /\ visitedMutex' = Unlocked
            /\ UNCHANGED <<urlChan, bpResChan, sendChan, executed>>]_vars
    /\ []((\E w \in Fetchers : visitedMutex = w /\ ~panicked) =>
            ENABLED (\E w \in Fetchers : FetchVisited(w) \/ FetchMark(w)))
    /\ []((visitedMutex = SaveTask /\ ~panicked) => ENABLED SaveCheck)

\* the save-and-recurse worker is at its send of a link to urlChan and a
\* fetch worker has taken the lock meanwhile
C30_Witness ==
    /\ spc = "pushurl" /\ Head(slinks) = UrlB
    /\ \E w \in Fetchers : visitedMutex = w /\ fpc[w] = "locked"


(***************************************************************************)
(* The flow through the pipeline's channels (SpecFlow): one request for a  *)
(* page, followed by the number of items in urlChan, bpResChan and         *)
(* sendChan with all fetchWorkers fetch workers.  Every send on a channel  *)
(* blocks while the channel is full.                                       *)
(***************************************************************************)
\* recvStageBpSocket: urlChan <- CrawlRequest{..., Depth: 0}
FlowRecv ==
    /\ hubFan = 0
    /\ urlLen < PipeChanCap
    /\ \E n \in FanOuts : hubFan' = n
    /\ urlLen' = urlLen + 1
    /\ UNCHANGED <<gwvars, cachevars, sockvars, pipevars, clivars, addrvars, certvars, keyvars,
                   hubSaved, holding, bpResLen, sendLen, saving, toPush>>

\* fetchWorkerBpSocket: a free worker takes the next CrawlRequest; its URL
\* was not visited before
FlowFetchTake ==
    /\ holding < fetchWorkers
    /\ urlLen > 0
    /\ urlLen' = urlLen - 1
    /\ holding' = holding + 1
    /\ UNCHANGED <<gwvars, cachevars, sockvars, pipevars, clivars, addrvars, certvars, keyvars,
                   hubFan, hubSaved, bpResLen, sendLen, saving, toPush>>

\* fetchWorkerBpSocket: bpResChan <- bpRes
FlowFetchSend ==
    /\ holding > 0
    /\ bpResLen < PipeChanCap
    /\ holding' = holding - 1
    /\ bpResLen' = bpResLen + 1
    /\ UNCHANGED <<gwvars, cachevars, sockvars, pipevars, clivars, addrvars, certvars, keyvars,
                   hubFan, hubSaved, urlLen, sendLen, saving, toPush>>

\* saveAndRecurseWorkerBpSocket: the next response is taken from bpResChan;
\* next is sendChan <- bpRes
FlowSaveTake ==
    /\ toPush = 0 /\ ~saving
    /\ bpResLen > 0
    /\ bpResLen' = bpResLen - 1
    /\ saving' = TRUE
    /\ UNCHANGED <<gwvars, cachevars, sockvars, pipevars, clivars, addrvars, certvars, keyvars,
                   hubFan, hubSaved, urlLen, holding, sendLen, toPush>>

\* sendChan <- bpRes when sendChan has room; then the links of the response
\* are extracted (the first response is the page asked for)
FlowSaveSend ==
    /\ saving
    /\ sendLen < PipeChanCap
    /\ sendLen' = sendLen + 1
    /\ saving' = FALSE
    /\ toPush' = IF hubSaved THEN 0 ELSE hubFan
    /\ hubSaved' = TRUE
    /\ UNCHANGED <<gwvars, cachevars, sockvars, pipevars, clivars, addrvars, certvars, keyvars,
                   hubFan, urlLen, holding, bpResLen>>

\* saveAndRecurseWorkerBpSocket: urlChan <- CrawlRequest{..., Depth: currentDepth + 1}
FlowSavePush ==
    /\ toPush > 0
    /\ urlLen < PipeChanCap
    /\ urlLen' = urlLen + 1
    /\ toPush' = toPush - 1
    /\ UNCHANGED <<gwvars, cachevars, sockvars, pipevars, clivars, addrvars, certvars, keyvars,
                   hubFan, hubSaved, holding, bpResLen, sendLen, saving>>

\* sendWorkerBpSocket takes a response from sendChan
FlowSend ==
    /\ sendLen > 0
    /\ sendLen' = sendLen - 1
    /\ UNCHANGED <<gwvars, cachevars, sockvars, pipevars, clivars, addrvars, certvars, keyvars,
                   hubFan, hubSaved, urlLen, holding, bpResLen, saving, toPush>>

NextFlow ==
    \/ FlowRecv
    \/ FlowFetchTake
    \/ FlowFetchSend
    \/ FlowSaveTake
    \/ FlowSaveSend
    \/ FlowSavePush
    \/ FlowSend
SpecFlow == Init /\ [][NextFlow]_vars

\* C34 (as claimed): the pipeline never deadlocks: in no reachable state are
\* all fetch workers blocked sending a result to a full bpResChan while the
\* save-and-recurse worker is blocked sending a link to a full urlChan.
C34_NoDeadlock ==
    ~(/\ holding = fetchWorkers /\ bpResLen = PipeChanCap
      /\ toPush > 0 /\ urlLen = PipeChanCap)

(***************************************************************************)
(* Part V.  The command-line-transport gateway (bp_gateway.go):            *)
(* ProxyRequest writes the request body to a file, runs bpsendfile, then   *)
(* runs bprecvfile, which returns when a bundle has arrived at ipn:149.2   *)
(* and has been written to testfile1.  Both commands are started with      *)
(* exec.Command, which takes no context.                                   *)
(***************************************************************************)
\* what sendrequest meets up to bpsendfile: a file error, a failing
\* bpsendfile, or none of these
CliSendOutcomes == {"write_error", "send_error", "ok"}

\* http.Header.Get: the first value under the key, "" without one
Get(hh, key) == IF key \in DOMAIN hh /\ hh[key] # <<>> THEN hh[key][1] ELSE <<>>
\* the model.BpResponse ProxyRequest builds from the http.Response of sendrequest
CliBpResponse(d) ==
    {[StatusCode |-> d.StatusCode, Headers |-> hh, Body |-> Base64Decode(d.Body),
      ContentType |-> Get(hh, "Content-Type"), ContentLength |-> d.ContentLength] :
        hh \in HttpHeader(d.Headers)}

\* sendrequest up to cmdSend.CombinedOutput(): errors return at once
CliSend(c) ==
    /\ cgpc[c] = "init"
    /\ \E o \in CliSendOutcomes :
        IF o = "ok"
        THEN /\ cgpc' = [cgpc EXCEPT ![c] = "sent"]
             /\ UNCHANGED cgres
        ELSE /\ cgpc' = [cgpc EXCEPT ![c] = "done"]
             /\ cgres' = [cgres EXCEPT ![c] = [kind |-> o]]
    /\ UNCHANGED <<gwvars, cachevars, sockvars, pipevars, auxvars, cgctx, endpoint, cgArrived,
                   testfile, epFor, answered, cgTook, cgfile>>

\* a testfile1 that is there is removed, then bprecvfile is started: it
\* cannot run, or the call blocks in cmdRecv.Run()
CliClean(c) ==
    /\ cgpc[c] = "sent"
    /\ testfile' = NoFile
    /\ \/ /\ cgpc' = [cgpc EXCEPT ![c] = "recv"]
          /\ UNCHANGED cgres
       \/ /\ cgpc' = [cgpc EXCEPT ![c] = "done"]
          /\ cgres' = [cgres EXCEPT ![c] = [kind |-> "recv_error"]]
    /\ UNCHANGED <<gwvars, cachevars, sockvars, pipevars, auxvars, cgctx, endpoint, cgArrived,
                   epFor, answered, cgTook, cgfile>>

\* the caller's deadline elapses or the caller cancels
CliCtxDone(c) ==
    /\ cgpc[c] # "done"
    /\ cgctx[c] = "live"
    /\ cgctx' = [cgctx EXCEPT ![c] = "done"]
    /\ UNCHANGED <<gwvars, cachevars, sockvars, pipevars, auxvars, cgpc, cgres, endpoint,
                   cgArrived, testfile, epFor, answered, cgTook, cgfile>>

\* bpsendfile has sent the request of call c
CliSent(c) ==
    \/ cgpc[c] \in {"sent", "recv", "stat", "read", "parse"}
    \/ cgpc[c] = "done" /\ cgres[c].kind \notin {"none", "write_error", "send_error"}

\* a response bundle arrives at ipn:149.2: the remote station's answer to a
\* request that was sent and has not been answered yet
CliBundle ==
    /\ cgArrived < MaxCliBundles
    /\ \E c \in CliCalls :
        /\ CliSent(c) /\ c \notin answered
        /\ epFor' = Append(epFor, c)
        /\ answered' = answered \cup {c}
    /\ \E p \in Payloads : endpoint' = Append(endpoint, p)
    /\ cgArrived' = cgArrived + 1
    /\ UNCHANGED <<gwvars, cachevars, sockvars, pipevars, auxvars, cgpc, cgctx, cgres, testfile,
                   cgTook, cgfile>>

\* the bprecvfile of call c takes the next bundle, writes it to testfile1
\* and exits: cmdRecv.Run() returns
CliRecvFile(c) ==
    /\ cgpc[c] = "recv"
    /\ endpoint # <<>>
    /\ testfile' = FileOf(Head(endpoint), Head(epFor))
    /\ endpoint' = Tail(endpoint)
    /\ epFor' = Tail(epFor)
    /\ cgpc' = [cgpc EXCEPT ![c] = "stat"]
    /\ UNCHANGED <<gwvars, cachevars, sockvars, pipevars, auxvars, cgctx, cgres, cgArrived,
                   answered, cgTook, cgfile>>

\* os.Stat(targetFile): "received file testfile1 not found" when it is absent
CliStat(c) ==
    /\ cgpc[c] = "stat"
    /\ IF testfile.present
       THEN cgpc' = [cgpc EXCEPT ![c] = "read"] /\ UNCHANGED cgres
       ELSE /\ cgpc' = [cgpc EXCEPT ![c] = "done"]
            /\ cgres' = [cgres EXCEPT ![c] = [kind |-> "not_found"]]
    /\ UNCHANGED <<gwvars, cachevars, sockvars, pipevars, auxvars, cgctx, endpoint, cgArrived,
                   testfile, epFor, answered, cgTook, cgfile>>

\* ioutil.ReadFile(targetFile): "error reading received file" when it is absent
CliRead(c) ==
    /\ cgpc[c] = "read"
    /\ IF testfile.present
       THEN /\ cgfile' = [cgfile EXCEPT ![c] = testfile.data]
            /\ cgTook' = [cgTook EXCEPT ![c] = testfile.for]
            /\ cgpc' = [cgpc EXCEPT ![c] = "parse"]
            /\ UNCHANGED cgres
       ELSE /\ cgpc' = [cgpc EXCEPT ![c] = "done"]
            /\ cgres' = [cgres EXCEPT ![c] = [kind |-> "read_error"]]
            /\ UNCHANGED <<cgfile, cgTook>>
    /\ UNCHANGED <<gwvars, cachevars, sockvars, pipevars, auxvars, cgctx, endpoint, cgArrived,
                   testfile, epFor, answered>>

\* the content is parsed and decoded, sendrequest returns and its deferred
\* os.Remove(targetFile) runs; ProxyRequest builds the BpResponse
CliReturn(c) ==
    /\ cgpc[c] = "parse"
    /\ LET d == cgfile[c] IN
        IF ~d.json THEN cgres' = [cgres EXCEPT ![c] = [kind |-> "err_json"]]
        ELSE IF ~Base64Valid(d.Body) THEN cgres' = [cgres EXCEPT ![c] = [kind |-> "err_decode"]]
        ELSE \E resp \in CliBpResponse(d) :
                cgres' = [cgres EXCEPT ![c] = [kind |-> "ok", resp |-> resp]]
    /\ testfile' = NoFile
    /\ cgpc' = [cgpc EXCEPT ![c] = "done"]
    /\ UNCHANGED <<gwvars, cachevars, sockvars, pipevars, auxvars, cgctx, endpoint, cgArrived,
                   epFor, answered, cgTook, cgfile>>

\* the steps a call can take by itself or with what has already arrived
CliProgress(c) ==
    \/ CliSend(c) \/ CliClean(c) \/ CliRecvFile(c)
    \/ CliStat(c) \/ CliRead(c) \/ CliReturn(c)

NextCli ==
    \/ \E c \in CliCalls : CliSend(c)
    \/ \E c \in CliCalls : CliClean(c)
    \/ \E c \in CliCalls : CliCtxDone(c)
    \/ CliBundle
    \/ \E c \in CliCalls : CliRecvFile(c)
    \/ \E c \in CliCalls : CliStat(c)
    \/ \E c \in CliCalls : CliRead(c)
    \/ \E c \in CliCalls : CliReturn(c)

SpecCli == Init /\ [][NextCli]_vars

\* C25 (as claimed): a call whose context is done and which has not returned
\* can take a step although no response bundle is there for it.
C25_BoundToContext ==
    \A c \in CliCalls :
        (cgctx[c] = "done" /\ cgpc[c] # "done" /\ endpoint = <<>>) => ENABLED CliProgress(c)

\* C35 (as claimed): a call returns the response bundle produced for its own
\* request, never the one produced for the other call, and a waiting call
\* whose response has been produced still has it at the endpoint.
C35_OwnResponse ==
    /\ \A c \in CliCalls : cgTook[c] \in {0, c}
    /\ \A c \in CliCalls :
        (cgpc[c] = "recv" /\ c \in answered) => \E i \in 1..Len(epFor) : epFor[i] = c

====
